---- MODULE Spec2Model ----
(***************************************************************************)
(* Outbound message dispatch engine of the Signal bridge (signalmeow      *)
(* sending code): envelope construction, transport dispatch and the       *)
(* recursive retry state machine of sendContent, with SendMessage and its *)
(* self-sync on top.                                                       *)
(***************************************************************************)
EXTENDS Integers, Sequences, FiniteSets, TLC

VARIABLES dev, snd

vars == <<dev, snd>>

(* ------------------------------ bounds -------------------------------- *)

\* Device ids of an account range over 1..MaxDevice.
MaxDevice == 2

\* Message timestamps (currentMessageTimestamp) range over 1..MaxTs.
MaxTs == 1

\* The per-send counters of lookups, builds and dispatches stop counting at
\* CounterCap (above anything a send does).
CounterCap == 6

\* Padded plaintexts are up to MaxBlocks blocks long.
MaxBlocks == 2

\* The plaintexts end in any up to MaxTail bytes.
MaxTail == 2

\* The padding versions asked for range over 0..MaxVersion.
MaxVersion == 4

\* The most members a group send reports as sent to, and as failed.
MaxRecipients == 2

\* The capacity of a portal's message channels (PortalMessageBuffer).
MaxBuffer == 1

\* The most messages handed to a portal.
MaxEvents == 3

\* The most logins started through the provisioning API.
MaxLogins == 3

\* The most requests the provisioning API and the login command serve.
MaxRequests == 4

(* ----------------------------- constants ------------------------------ *)

DeviceIds == 1..MaxDevice

Timestamps == 1..MaxTs

\* d.Data.DeviceId: the device id of the sending device.
MyDeviceId == 1

\* d.Data.AciUuid: the sender's own account.
AciUuid == "self"

Accounts == {"self", "alice"}

\* The callers running SendMessage against the Device.
Procs == {"p1"}

\* signalpb.Envelope_CIPHERTEXT
Envelope_CIPHERTEXT == 1

\* signalpb.Envelope_PREKEY_BUNDLE
Envelope_PREKEY_BUNDLE == 3

\* signalpb.Envelope_UNIDENTIFIED_SENDER
Envelope_UNIDENTIFIED_SENDER == 6

\* The -1 passed to FetchAndProcessPreKey: "all devices".
AllDevices == 0 - 1

\* The retryable statuses with 200 among them: a delivered message is sent again.
retryableStatuses_with200 == {200, 409, 410, 428, 500, 503}

\* The retryable statuses with 404 among them.
retryableStatuses_with404 == {404, 409, 410, 428, 500, 503}

\* sendContent, line 1033.
retryableStatuses == {409, 410, 428, 500, 503}

\* The statuses the service answers a PUT /v1/messages/{uuid} with.
Statuses == {200, 400, 404} \cup retryableStatuses

(* ------------------------------ helpers ------------------------------- *)

Min(S) == CHOOSE x \in S : \A y \in S : x <= y

\* The elements of a finite set of integers as an ascending sequence.
RECURSIVE SetToSeq(_)
SetToSeq(S) == IF S = {} THEN <<>> ELSE <<Min(S)>> \o SetToSeq(S \ {Min(S)})

Range(s) == {s[i] : i \in 1..Len(s)}

Inc(n) == IF n < CounterCap THEN n + 1 ELSE n

NoBody == [ok |-> TRUE, missingDevices |-> <<>>, extraDevices |-> <<>>, staleDevices |-> <<>>]

\* The response bodies the service sends with a status, for a batch with
\* envelopes for the devices in sent.  A 409 names the account's devices
\* the batch lacked (missing) and the devices of the batch the account does
\* not have (extra); a 410 names devices of the batch whose registration id
\* was stale.  ok = FALSE is a body that is not valid JSON; it may come
\* with any status a handler or the retry answers.
Bodies(status, sent) ==
    IF status = 409 THEN
        {[NoBody EXCEPT !.ok = FALSE]} \cup
        {[NoBody EXCEPT !.missingDevices = SetToSeq(m), !.extraDevices = SetToSeq(e)] :
            <<m, e>> \in (SUBSET (DeviceIds \ sent)) \X (SUBSET sent)}
    ELSE IF status = 410 THEN
        {[NoBody EXCEPT !.ok = FALSE]} \cup
        {[NoBody EXCEPT !.staleDevices = SetToSeq(d)] : d \in SUBSET sent}
    ELSE IF status \in {428, 500, 503} THEN
        {NoBody, [NoBody EXCEPT !.ok = FALSE]}
    ELSE {NoBody}

NoError == [kind |-> "none", code |-> 0]

Error(kind) == [kind |-> kind, code |-> 0]

(* ------------------------- external capabilities ---------------------- *)

\* What a query of the session store hands back: the pairs it holds
\* ("ok") or an error ("err").
StoreAnswers == {"ok", "err"}

\* The answers of a store that may also hand back nil slices for an
\* account without sessions ("nil"), or one session record fewer than
\* addresses ("short").
AnyStoreAnswers == StoreAnswers \cup {"nil", "short"}

\* SessionStoreExtras.AllSessionsForUUID: the (address, session record)
\* pairs of an account, in device-id order; err when the store fails.
\* isNil says that a slice handed back is nil, a nil slice having length 0.
AllSessionsForUUID(sessions, uuid, answer) ==
    LET all == SetToSeq(sessions[uuid])
    IN  IF answer = "err"
        THEN [err |-> TRUE, isNil |-> TRUE, addresses |-> <<>>, sessionRecords |-> <<>>]
        ELSE IF answer = "nil" /\ all = <<>>
        THEN [err |-> FALSE, isNil |-> TRUE, addresses |-> <<>>, sessionRecords |-> <<>>]
        ELSE IF answer = "short" /\ all # <<>>
        THEN [err |-> FALSE, isNil |-> FALSE, addresses |-> all,
              sessionRecords |-> SubSeq(all, 1, Len(all) - 1)]
        ELSE [err |-> FALSE, isNil |-> FALSE, addresses |-> all, sessionRecords |-> all]

\* SessionStoreExtras.RemoveSession: deletes the session of (uuid, id);
\* a failing store leaves it as it was.
RemoveSession(sessions, uuid, id, ok) ==
    IF ok THEN [sessions EXCEPT ![uuid] = @ \ {id}] ELSE sessions

\* FetchAndProcessPreKey(uuid, id): fetches the prekey bundle of device id,
\* or (id = -1) of every device the service lists, and establishes a
\* session for each.  got is the set of devices whose bundle was fetched
\* and processed; the empty set is a failed fetch.
FetchAndProcessPreKey(sessions, uuid, id, got) ==
    IF id = AllDevices
    THEN [sessions EXCEPT ![uuid] = @ \cup got]
    ELSE [sessions EXCEPT ![uuid] = @ \cup (got \cap {id})]

FetchEvent(id, ok) == [op |-> "fetch", id |-> id, ok |-> ok]

RemoveEvent(id, ok) == [op |-> "remove", id |-> id, ok |-> ok]

(* ----------------------------- sending -------------------------------- *)

\* A check that lets the error of the store through.
checkForErrorWithSessions_errIgnored(q) ==
    IF ~q.err /\ q.isNil THEN "Nil"
    ELSE IF Len(q.addresses) # Len(q.sessionRecords) THEN "Mismatched"
    ELSE IF ~q.err /\ (Len(q.addresses) = 0 \/ Len(q.sessionRecords) = 0) THEN "NoSessions"
    ELSE "none"

\* checkForErrorWithSessions: the error, if any, of a store query result.
checkForErrorWithSessions(q) ==
    IF q.err THEN "Store"
    ELSE IF q.isNil THEN "Nil"
    ELSE IF Len(q.addresses) # Len(q.sessionRecords) THEN "Mismatched"
    ELSE IF Len(q.addresses) = 0 \/ Len(q.sessionRecords) = 0 THEN "NoSessions"
    ELSE "none"

\* A count of the own sessions that does not leave out this device.
howManyOtherDevicesDoWeHave_countsSelf(sessions, storeErr) ==
    LET q == AllSessionsForUUID(sessions, AciUuid, IF storeErr THEN "err" ELSE "ok")
    IN  IF q.err THEN 0 ELSE Len(q.addresses)

\* howManyOtherDevicesDoWeHave: own sessions whose device id is not ours.
howManyOtherDevicesDoWeHave(sessions, storeErr) ==
    LET q == AllSessionsForUUID(sessions, AciUuid, IF storeErr THEN "err" ELSE "ok")
    IN  IF q.err THEN 0
        ELSE Cardinality({i \in 1..Len(q.addresses) : q.addresses[i] # MyDeviceId})

\* sessionRecord.GetRemoteRegistrationID: the registration id a session
\* record holds (the record of device id is identified with id).
GetRemoteRegistrationID(sessionRecord) == 100 + sessionRecord

\* What the cipher and the certificate endpoint do for
\* one recipient device of a build.
\*   authenticated: the ciphertext kind ("whisper", "prekey", "unknown"),
\*     or "error" when encryption fails;
\*   sealed: "ok", "error" (sealed encryption fails), "certerr" (a
\*     certificate fetch, if one is needed, fails).
Outcomes(unauthenticated) ==
    IF unauthenticated
    THEN {"ok", "error", "certerr"}
    ELSE {"whisper", "prekey", "unknown", "error"}

\* What a request for the sender certificate may come to: "ok", or a
\* failure of the request (line 584), of its status (587), of the decoding
\* of the body (595), of the base64 text (599) or of the certificate's
\* deserialization (603).
CertificateFetches == {"ok", "request", "status", "json", "base64", "deserialize"}

\* A certificate requested again although the Device holds one.
senderCertificate_refetches(cached, fetch) ==
    [err |-> fetch # "ok", cached |-> cached \/ fetch = "ok", requested |-> TRUE]

\* senderCertificate: the certificate the Device holds, else one requested
\* over HTTPS.  The failures before the deserialization return early; line
\* 604 stores what DeserializeSenderCertificate handed back, which is no
\* certificate (nil) when it failed.  requested says that a request was
\* issued.
senderCertificate(cached, fetch) ==
    IF cached THEN [err |-> FALSE, cached |-> TRUE, requested |-> FALSE]
    ELSE IF fetch \in {"request", "status", "json", "base64"}
    THEN [err |-> TRUE, cached |-> FALSE, requested |-> TRUE]
    ELSE [err |-> fetch # "ok", cached |-> fetch = "ok", requested |-> TRUE]

\* buildAuthedMessageToSend: (envelopeType, encryptedPayload, err).
buildAuthedMessageToSend(outcome) ==
    IF outcome = "error"
    THEN [envelopeType |-> 0, encryptedPayload |-> "", err |-> "Encrypt"]
    ELSE IF outcome = "prekey"
    THEN [envelopeType |-> Envelope_PREKEY_BUNDLE, encryptedPayload |-> "ciphertext", err |-> "none"]
    ELSE IF outcome = "unknown"
    THEN [envelopeType |-> 0, encryptedPayload |-> "", err |-> "UnknownMessageType"]
    ELSE [envelopeType |-> Envelope_CIPHERTEXT, encryptedPayload |-> "ciphertext", err |-> "none"]

\* buildSSMessageToSend: (envelopeType, encryptedPayload, err), whether
\* the Device holds a certificate afterwards and whether a certificate was
\* requested.  fetch is what a certificate request comes to, encryptOk
\* whether the sealed encryption succeeds.
buildSSMessageToSend(cached, fetch, encryptOk) ==
    LET c == senderCertificate(cached, fetch)
    IN  IF c.err
        THEN [envelopeType |-> 0, encryptedPayload |-> "", err |-> "Certificate",
              cached |-> c.cached, requested |-> c.requested]
        ELSE [envelopeType |-> Envelope_UNIDENTIFIED_SENDER,
              encryptedPayload |-> IF encryptOk THEN "ciphertext" ELSE "",
              err |-> "none", cached |-> c.cached, requested |-> c.requested]

\* A prekey fetch for every device whatever the store answered.
noSessions_always(q) == ~q.err

\* buildMessagesToSend, line 701: the store answered without error and
\* with no address or no session record.
noSessions(q) == ~q.err /\ (Len(q.addresses) = 0 \/ Len(q.sessionRecords) = 0)

\* buildMessagesToSend, lines 700-709: the recipient's sessions, after one
\* all-devices prekey fetch and a second query when the first found none.
\* queries counts the calls of AllSessionsForUUID.
resolveSessions(sessions, recipientUuid, answer1, got, answer2) ==
    LET q1 == AllSessionsForUUID(sessions, recipientUuid, answer1)
        fetch == noSessions(q1)
        sessions2 == IF fetch
                     THEN FetchAndProcessPreKey(sessions, recipientUuid, AllDevices, got)
                     ELSE sessions
        q2 == IF fetch THEN AllSessionsForUUID(sessions2, recipientUuid, answer2) ELSE q1
    IN  [q |-> q2, sessions |-> sessions2, err |-> checkForErrorWithSessions(q2),
         log |-> IF fetch THEN <<FetchEvent(AllDevices, got # {})>> ELSE <<>>,
         queries |-> IF fetch THEN 2 ELSE 1, first |-> q1, last |-> q2]

\* An envelope with the two ids in each other's place.
MyMessage_swappedIds(envelopeType, recipientDeviceID, destinationRegistrationID, encryptedPayload) ==
    [Type |-> envelopeType,
     DestinationDeviceID |-> destinationRegistrationID,
     DestinationRegistrationID |-> recipientDeviceID,
     Content |-> encryptedPayload]

\* buildMessagesToSend, lines 737-742: the envelope for one device.
MyMessage(envelopeType, recipientDeviceID, destinationRegistrationID, encryptedPayload) ==
    [Type |-> envelopeType,
     DestinationDeviceID |-> recipientDeviceID,
     DestinationRegistrationID |-> destinationRegistrationID,
     Content |-> encryptedPayload]

\* buildMessagesToSend, lines 711-746: one envelope per address, from
\* address i on.  The err of the per-device encryption is assigned again by
\* the registration-id read that follows it (line 733) and is never tested.
\* regErr holds the devices whose session record fails to give its
\* registration id.
RECURSIVE buildLoop(_, _, _, _, _, _, _)
buildLoop(q, i, unauthenticated, o, regErr, cached, messages) ==
    IF i > Len(q.addresses)
    THEN [err |-> "none", messages |-> messages, cached |-> cached]
    ELSE
        LET id == q.addresses[i]
            e == IF unauthenticated
                 THEN buildSSMessageToSend(cached, IF o[id] = "certerr" THEN "request" ELSE "ok",
                                           o[id] # "error")
                 ELSE buildAuthedMessageToSend(o[id])
            cached2 == IF unauthenticated THEN e.cached ELSE cached
            outgoingMessage ==
                MyMessage(e.envelopeType, id, GetRemoteRegistrationID(q.sessionRecords[i]),
                          e.encryptedPayload)
        IN  IF id \in regErr
            THEN [err |-> "RegistrationID", messages |-> <<>>, cached |-> cached2]
            ELSE buildLoop(q, i + 1, unauthenticated, o, regErr, cached2,
                           Append(messages, outgoingMessage))

(* --------------------------- retry repairs ---------------------------- *)

\* handle409, lines 1085-1087: a targeted prekey fetch per missing device;
\* the result of the fetch is not looked at.
RECURSIVE fetchMissingDevices(_, _, _, _)
fetchMissingDevices(st, recipientUuid, missingDevices, fetchOk) ==
    IF missingDevices = <<>> THEN st
    ELSE LET id == Head(missingDevices)
         IN  fetchMissingDevices(
                 [st EXCEPT
                     !.sessions = FetchAndProcessPreKey(@, recipientUuid, id, fetchOk),
                     !.log = Append(@, FetchEvent(id, id \in fetchOk))],
                 recipientUuid, Tail(missingDevices), fetchOk)

\* The extra devices reported removed, their sessions left in the store.
removeExtraDevices_logsOnly(st, recipientUuid, extraDevices, removeOk) ==
    [st EXCEPT !.log = @ \o [i \in 1..Len(extraDevices) |-> RemoveEvent(extraDevices[i], TRUE)]]

\* handle409, lines 1092-1107: a session removal per extra device; the
\* first failing removal ends the handler with its error.
RECURSIVE removeExtraDevices(_, _, _, _)
removeExtraDevices(st, recipientUuid, extraDevices, removeOk) ==
    IF extraDevices = <<>> THEN st
    ELSE LET id == Head(extraDevices)
             st2 == [st EXCEPT
                        !.sessions = RemoveSession(@, recipientUuid, id, id \in removeOk),
                        !.log = Append(@, RemoveEvent(id, id \in removeOk))]
         IN  IF id \notin removeOk
             THEN [st2 EXCEPT !.err = "RemoveSession"]
             ELSE removeExtraDevices(st2, recipientUuid, Tail(extraDevices), removeOk)

\* The 409 repair without the removal of the extra devices.
handle409_keepsExtra(sessions, recipientUuid, body, fetchOk, removeOk) ==
    LET st == [sessions |-> sessions, log |-> <<>>, err |-> "none"]
    IN  IF ~body.ok THEN [st EXCEPT !.err = "Unmarshal"]
        ELSE fetchMissingDevices(st, recipientUuid, body.missingDevices, fetchOk)

\* The 409 repair taking a body that does not parse for one that names no
\* device.
handle409_parseErrorIgnored(sessions, recipientUuid, body, fetchOk, removeOk) ==
    removeExtraDevices(
        fetchMissingDevices([sessions |-> sessions, log |-> <<>>, err |-> "none"],
                            recipientUuid, body.missingDevices, fetchOk),
        recipientUuid, body.extraDevices, removeOk)

\* handle409: repairs the session store after a "device list out of date"
\* response.  Returns the store, the repair actions done and the error.
handle409(sessions, recipientUuid, body, fetchOk, removeOk) ==
    LET st == [sessions |-> sessions, log |-> <<>>, err |-> "none"]
    IN  IF ~body.ok THEN [st EXCEPT !.err = "Unmarshal"]
        ELSE removeExtraDevices(
                 fetchMissingDevices(st, recipientUuid, body.missingDevices, fetchOk),
                 recipientUuid, body.extraDevices, removeOk)

\* handle410, lines 1125-1136: per stale device, remove the session (a
\* failing removal ends the handler), then fetch a prekey bundle for it.
RECURSIVE replaceStaleDevices(_, _, _, _, _)
replaceStaleDevices(st, recipientUuid, staleDevices, fetchOk, removeOk) ==
    IF staleDevices = <<>> THEN st
    ELSE LET id == Head(staleDevices)
             st2 == [st EXCEPT
                        !.sessions = RemoveSession(@, recipientUuid, id, id \in removeOk),
                        !.log = Append(@, RemoveEvent(id, id \in removeOk))]
             st3 == [st2 EXCEPT
                        !.sessions = FetchAndProcessPreKey(@, recipientUuid, id, fetchOk),
                        !.log = Append(@, FetchEvent(id, id \in fetchOk))]
         IN  IF id \notin removeOk
             THEN [st2 EXCEPT !.err = "RemoveSession"]
             ELSE replaceStaleDevices(st3, recipientUuid, Tail(staleDevices), fetchOk, removeOk)

\* The 410 repair fetching the new prekey bundles without removing the
\* stale sessions first.
handle410_fetchOnly(sessions, recipientUuid, body, fetchOk, removeOk) ==
    LET st == [sessions |-> sessions, log |-> <<>>, err |-> "none"]
    IN  IF ~body.ok THEN [st EXCEPT !.err = "Unmarshal"]
        ELSE fetchMissingDevices(st, recipientUuid, body.staleDevices, fetchOk)

\* handle410: repairs the session store after a "stale device" response.
handle410(sessions, recipientUuid, body, fetchOk, removeOk) ==
    LET st == [sessions |-> sessions, log |-> <<>>, err |-> "none"]
    IN  IF ~body.ok THEN [st EXCEPT !.err = "Unmarshal"]
        ELSE replaceStaleDevices(st, recipientUuid, body.staleDevices, fetchOk, removeOk)

\* The header lines of a response as handle428 reads them: every line
\* holds a colon ("Key:Value"), or some line holds none.
HeaderForms == {"keyvalue", "nocolon"}

\* handle428: decodes the body, then reads the Retry-After header and logs
\* it; nothing else.  Line 1160 takes element 1 of strings.Split(header, ":")
\* for every header line, which panics (index out of range) on a line
\* without a colon.
handle428(sessions, recipientUuid, body, headers) ==
    LET st == [sessions |-> sessions, log |-> <<>>, err |-> "none"]
    IN  IF ~body.ok THEN [st EXCEPT !.err = "Unmarshal"]
        ELSE IF headers = "nocolon" THEN [st EXCEPT !.err = "panic"]
        ELSE st

\* sendContent, lines 1044-1055: the repair a retryable status calls for.
handleRetryable(status, sessions, recipientUuid, body, headers, fetchOk, removeOk) ==
    IF status = 409 THEN handle409(sessions, recipientUuid, body, fetchOk, removeOk)
    ELSE IF status = 410 THEN handle410(sessions, recipientUuid, body, fetchOk, removeOk)
    ELSE IF status = 428 THEN handle428(sessions, recipientUuid, body, headers)
    ELSE [sessions |-> sessions, log |-> <<>>, err |-> "none"]

(* --------------------------- state machine ---------------------------- *)

NoResult == [WasSuccessful |-> FALSE, RecipientUuid |-> "none", Unidentified |-> FALSE,
             Error |-> NoError]

NoRequest == [verb |-> "none", path |-> "none", accessKeyHeader |-> FALSE, ws |-> "none",
              Timestamp |-> 0]

\* GroupMessageSendResult before anything was sent.
NoGroupResult == [SuccessfullySentTo |-> <<>>, FailedToSendTo |-> <<>>]

\* No query of the session store made yet.
NoAnswer == [err |-> FALSE, isNil |-> FALSE, addresses |-> <<>>, sessionRecords |-> <<>>]

\* A caller that is not inside SendMessage or SendGroupMessage.  nQuery,
\* first and last are the number of store queries of the latest envelope
\* build and the answers to the first and to the last of them; cancelled
\* says that the context (ctx) of the call has been cancelled; nResponse
\* counts the responses a top-level sendContent call has received;
\* otherDevicesErr says that the store failed when SendMessage counted the
\* own other devices; modes holds the sender mode (sealed or not) of each
\* attempt of the top-level sendContent call so far.
Idle ==
    [pc |-> "idle", phase |-> "none",
     recipientUuid |-> "none", messageTimestamp |-> 0, content |-> "none",
     retryCount |-> 0, useUnidentifiedSender |-> FALSE,
     messages |-> <<>>, request |-> NoRequest,
     status |-> 0, body |-> NoBody, log |-> <<>>,
     nLookup |-> 0, nBuild |-> 0, nDispatch |-> 0, got200 |-> FALSE, sendReq |-> "none",
     sentUnidentified |-> FALSE, err |-> NoError, result |-> NoResult,
     members |-> <<>>, memberIndex |-> 0, calls |-> <<>>, syncContent |-> <<>>,
     otherDevices |-> 0, profileKey |-> "none", nQuery |-> 0, first |-> NoAnswer,
     last |-> NoAnswer, cancelled |-> FALSE, nResponse |-> 0, otherDevicesErr |-> FALSE,
     modes |-> <<>>,
     groupResult |-> NoGroupResult, groupErr |-> NoError]

\* The entry of a top-level sendContent call (retryCount 0) for a caller.
Call(s, phase, recipientUuid, messageTimestamp, content) ==
    [s EXCEPT !.pc = "enter", !.phase = phase,
              !.recipientUuid = recipientUuid, !.messageTimestamp = messageTimestamp,
              !.content = content, !.retryCount = 0, !.useUnidentifiedSender = FALSE,
              !.messages = <<>>, !.request = NoRequest,
              !.status = 0, !.body = NoBody,
              !.nLookup = 0, !.nBuild = 0, !.nDispatch = 0, !.got200 = FALSE,
              !.sendReq = "none", !.nQuery = 0, !.first = NoAnswer,
              !.last = NoAnswer, !.nResponse = 0, !.modes = <<>>,
              !.sentUnidentified = FALSE, !.err = NoError]

\* A recursion whose caller returns the sender mode of its own attempt
\* instead of the one the recursive call handed back.
Returned_ownMode(s, sentUnidentified, err) ==
    [s EXCEPT !.pc = "returned",
              !.sentUnidentified = IF s.modes = <<>> THEN sentUnidentified ELSE s.modes[1],
              !.err = err, !.messages = <<>>, !.request = NoRequest]

\* sendContent returns (sentUnidentified, err); every enclosing recursive
\* call hands the pair on unchanged (lines 1057-1068).
Returned(s, sentUnidentified, err) ==
    [s EXCEPT !.pc = "returned", !.sentUnidentified = sentUnidentified, !.err = err,
              !.messages = <<>>, !.request = NoRequest]

Init ==
    /\ dev = [sessions |-> [a \in Accounts |-> {}], SenderCertificate |-> FALSE]
    /\ snd = [p \in Procs |-> Idle]

\* SendMessage, lines 910-919: builds the data message and calls
\* sendContent for the recipient at retry depth 0.
SendMessage(p) ==
    /\ snd[p].pc = "idle"
    /\ \E recipientUuid \in Accounts \ {AciUuid}, messageTimestamp \in Timestamps :
          snd' = [snd EXCEPT ![p] =
                    Call(@, "primary", recipientUuid, messageTimestamp, "DataMessage")]
    /\ UNCHANGED dev

\* The retry ceiling off by one: a fifth request is let through.
tooManyRetries_offByOne(retryCount) == retryCount > 3 + 1

\* sendContent, line 970: the retry ceiling.
tooManyRetries(retryCount) == retryCount > 3

\* ProfileKeyForSignalID and DeriveAccessKey: the key is known and the
\* access key derived ("ok"), or the lookup fails, finds no key, or the
\* derivation fails.
ProfileKeyOutcomes == {"ok", "lookuperr", "nokey", "deriveerr"}

\* The selector keeping sealed mode when the access key cannot be derived.
useUnidentifiedSender_ignoresDerive(pk) == pk \in {"ok", "deriveerr"}

\* sendContent, lines 976-986: sealed sender is used when the profile key
\* was found and the access key derived.
useUnidentifiedSender(pk) == pk = "ok"

\* A request sent over the authenticated websocket whatever the selector
\* chose, the access-key header still following the choice.
CreateWSRequest_alwaysAuthed(s) ==
    [verb |-> "PUT", path |-> s.recipientUuid,
     accessKeyHeader |-> s.useUnidentifiedSender,
     ws |-> "AuthedWS",
     Timestamp |-> s.messageTimestamp]

\* The request of lines 1012-1024: a PUT to /v1/messages/{recipientUuid},
\* with the access-key header and over the unauthenticated websocket when
\* sealed, else over the authenticated one.
CreateWSRequest(s) ==
    [verb |-> "PUT", path |-> s.recipientUuid,
     accessKeyHeader |-> s.useUnidentifiedSender,
     ws |-> IF s.useUnidentifiedSender THEN "UnauthedWS" ELSE "AuthedWS",
     Timestamp |-> s.messageTimestamp]

\* A submission that does not wait for the response before the next
\* attempt is made.
dispatch_fireAndForget(s, messages, sendOk) ==
    IF sendOk
    THEN [s EXCEPT !.pc = "retry", !.sendReq = "ok", !.nDispatch = Inc(@),
                   !.sentUnidentified = s.useUnidentifiedSender]
    ELSE [Returned(s, s.useUnidentifiedSender, Error("Transport")) EXCEPT !.sendReq = "err"]

\* A failed submission answered by another attempt instead of the error.
dispatch_retryOnError(s, messages, sendOk) ==
    IF sendOk
    THEN [s EXCEPT !.pc = "wait", !.request = CreateWSRequest(s), !.status = 0,
                   !.messages = messages, !.sendReq = "ok",
                   !.nDispatch = Inc(@),
                   !.sentUnidentified = s.useUnidentifiedSender]
    ELSE [s EXCEPT !.pc = "retry", !.sendReq = "err"]

\* sendContent, lines 1002-1028: the batch is submitted; SendRequest hands
\* back a response channel, or an error.
dispatch(s, messages, sendOk) ==
    IF sendOk
    THEN [s EXCEPT !.pc = "wait", !.request = CreateWSRequest(s), !.status = 0,
                   !.messages = messages, !.sendReq = "ok",
                   !.nDispatch = Inc(@),
                   !.sentUnidentified = s.useUnidentifiedSender]
    ELSE [Returned(s, s.useUnidentifiedSender, Error("Transport")) EXCEPT !.sendReq = "err"]

\* What the caller's record keeps of the store queries of a build: their
\* number and answers when keep says so, else nothing.
observed(r, keep) ==
    IF keep THEN r ELSE [r EXCEPT !.queries = 0, !.first = NoAnswer, !.last = NoAnswer]

\* sendContent, lines 996-1028, once the sessions are resolved: the
\* envelopes are built and the request submitted.
buildAndDispatch(p, s, r) ==
    LET t == [s EXCEPT !.log = r.log, !.nQuery = r.queries, !.first = r.first,
                       !.last = r.last]
    IN  IF r.err # "none"
        THEN /\ dev' = [dev EXCEPT !.sessions = r.sessions]
             /\ snd' = [snd EXCEPT ![p] = Returned(t, FALSE, Error(r.err))]
        ELSE
          \E regErr \in {{}} \cup {{r.q.addresses[i]} : i \in DOMAIN r.q.addresses \cap {1}} :
          \E o \in IF regErr = {}
                   THEN [Range(r.q.addresses) -> Outcomes(s.useUnidentifiedSender)]
                   ELSE {[id \in Range(r.q.addresses) |-> x] :
                            x \in Outcomes(s.useUnidentifiedSender)} :
            \E b \in {buildLoop(r.q, 1, s.useUnidentifiedSender, o, regErr,
                                 dev.SenderCertificate, <<>>)} :
                /\ dev' = [sessions |-> r.sessions, SenderCertificate |-> b.cached]
                /\ IF b.err # "none"
                   THEN snd' = [snd EXCEPT ![p] = Returned(t, FALSE, Error(b.err))]
                   ELSE \E sendOk \in BOOLEAN :
                          snd' = [snd EXCEPT ![p] = dispatch(t, b.messages, sendOk)]

\* sendContent, lines 970-1028, for one outcome pk of the profile-key
\* lookup and access-key derivation: the depth check, the sealed-sender
\* choice, the envelope build and the submission of the request.  The
\* outcome pk, the answers of the store and the sender modes of the
\* earlier attempts are of no use once the batch is built; they stay in the
\* caller's record only when keep names them ("key", "store", "modes").
\* answers is what the session store may hand back.
sendContentWith(p, pk, keep, answers) ==
    /\ snd[p].pc = "enter"
    /\ IF tooManyRetries(snd[p].retryCount)
       THEN /\ snd' = [snd EXCEPT ![p] = Returned(@, FALSE, Error("TooManyRetries"))]
            /\ dev' = dev
       ELSE
           LET s == [snd[p] EXCEPT !.useUnidentifiedSender = useUnidentifiedSender(pk),
                                   !.profileKey = IF "key" \in keep THEN pk ELSE "none",
                                   !.modes = IF "modes" \in keep
                                             THEN Append(@, useUnidentifiedSender(pk)) ELSE @,
                                   !.nLookup = Inc(@), !.nBuild = Inc(@)]
           IN  \* the store lookup fails
               \/ \E r \in {observed(resolveSessions(dev.sessions, s.recipientUuid,
                                                     "err", {}, "ok"), "store" \in keep)} :
                    buildAndDispatch(p, s, r)
               \* the store answers: with no session, the prekeys are fetched
               \/ \E answer1 \in answers \ {"err"} :
                    IF noSessions(AllSessionsForUUID(dev.sessions, s.recipientUuid, answer1))
                    THEN \E got \in SUBSET DeviceIds, answer2 \in answers :
                         \E r \in {observed(resolveSessions(dev.sessions, s.recipientUuid,
                                                           answer1, got, answer2),
                                           "store" \in keep)} :
                           buildAndDispatch(p, s, r)
                    ELSE \E r \in {observed(resolveSessions(dev.sessions, s.recipientUuid,
                                                           answer1, {}, "ok"),
                                           "store" \in keep)} :
                           buildAndDispatch(p, s, r)

\* sendContent, lines 970-1028: one call of sendContent up to the wait for
\* the response, whatever the profile-key lookup gives (one outcome of the
\* lookup for each sender mode it can lead to).
sendContent(p) ==
    \E sealed \in {useUnidentifiedSender(pk) : pk \in ProfileKeyOutcomes} :
        sendContentWith(p, CHOOSE pk \in ProfileKeyOutcomes : useUnidentifiedSender(pk) = sealed,
                        {}, StoreAnswers)

\* The devices a handler removes the sessions of.
removeIds(status, body) ==
    IF status = 409 THEN Range(body.extraDevices)
    ELSE IF status = 410 THEN Range(body.staleDevices)
    ELSE {}

\* The devices a handler fetches prekeys for, given the removals that
\* succeed: handle409 fetches before it removes anything; handle410 fetches
\* for a stale device once its removal succeeded and stops at the first
\* removal that fails.
fetchIds(status, body, removeOk) ==
    IF status = 409 THEN Range(body.missingDevices)
    ELSE IF status = 410
    THEN {body.staleDevices[k] : k \in {i \in 1..Len(body.staleDevices) :
                                          \A j \in 1..i : body.staleDevices[j] \in removeOk}}
    ELSE {}

\* The status test letting 404 pass as if it were 200.
unexpectedStatus_404passes(status) == status \notin {200, 404}

\* sendContent, line 1062: a status that is neither retryable nor 200.
unexpectedStatus(status) == status # 200

\* The recursive call made two depths further down.
nextRetryCount_plusTwo(retryCount) == retryCount + 2

\* The recursive call made with the depth it was entered with.
nextRetryCount_same(retryCount) == retryCount

\* sendContent, line 1057: the retry depth of the recursive call.
nextRetryCount(retryCount) == retryCount + 1

\* The outcomes of the removals of a handler: all succeed, or one of them
\* fails (the handler stops at the first failure).
removeOutcomes(status, body) ==
    {removeIds(status, body)} \cup {removeIds(status, body) \ {id} : id \in removeIds(status, body)}

\* sendContent, lines 1030-1055 and 1062-1068: the response to the request
\* and the repair it calls for, the header lines of a 428 response having
\* one of the given forms.  A panic ends the call without a return value.
ReceiveResponseWith(p, headerForms) ==
    /\ snd[p].pc = "wait"
    /\ \E status \in Statuses :
       \E headers \in IF status = 428 THEN headerForms ELSE {"keyvalue"} :
       \E body \in Bodies(status, {snd[p].messages[i].DestinationDeviceID :
                                        i \in 1..Len(snd[p].messages)}) :
       \E removeOk \in removeOutcomes(status, body) :
       \E fetchOk \in SUBSET fetchIds(status, body, removeOk) :
       \E h \in {handleRetryable(status, dev.sessions, snd[p].recipientUuid, body, headers,
                                  fetchOk, removeOk)} :
          LET s == [snd[p] EXCEPT !.status = status, !.body = body,
                                  !.got200 = @ \/ (status = 200),
                                  !.log = <<>>, !.nQuery = 0, !.first = NoAnswer,
                                  !.last = NoAnswer, !.nResponse = Inc(@),
                                  !.messages = <<>>, !.request = NoRequest]
          IN  IF status \in retryableStatuses
              THEN /\ dev' = [dev EXCEPT !.sessions = h.sessions]
                   /\ snd' = [snd EXCEPT ![p] =
                        IF h.err = "panic"
                        THEN [s EXCEPT !.pc = "panicked", !.log = h.log]
                        ELSE IF h.err # "none"
                        THEN [Returned(s, FALSE, Error(h.err)) EXCEPT !.log = h.log]
                        ELSE [s EXCEPT !.pc = "retry", !.log = h.log]]
              ELSE /\ dev' = dev
                   /\ snd' = [snd EXCEPT ![p] =
                        IF unexpectedStatus(status)
                        THEN Returned(s, s.useUnidentifiedSender,
                                      [kind |-> "UnexpectedStatus", code |-> status])
                        ELSE Returned(s, s.useUnidentifiedSender, NoError)]

\* The response to the request when the service sends its header lines as
\* "Key:Value".
ReceiveResponse(p) == ReceiveResponseWith(p, {"keyvalue"})

\* sendContent, line 1057: the recursive call at retryCount+1.  The new
\* call starts with locals of its own: no response, no request, no choice
\* of sender mode yet.  The response and the repair of the calling frame
\* stay in the caller's record until the new call builds its batch only
\* when keep says so.
RetryWith(p, keep) ==
    /\ snd[p].pc = "retry"
    /\ snd' = [snd EXCEPT ![p] =
                 [@ EXCEPT !.pc = "enter", !.retryCount = nextRetryCount(@),
                           !.status = IF keep THEN @ ELSE 0,
                           !.body = IF keep THEN @ ELSE NoBody,
                           !.log = IF keep THEN @ ELSE <<>>,
                           !.useUnidentifiedSender = FALSE, !.profileKey = "none",
                           !.sendReq = "none",
                           !.sentUnidentified = FALSE]]
    /\ UNCHANGED dev

Retry(p) == RetryWith(p, FALSE)

\* SendMessage's result (lines 920-935).
SendMessageResult(s) ==
    IF s.err.kind # "none"
    THEN [WasSuccessful |-> FALSE, RecipientUuid |-> s.recipientUuid,
          Unidentified |-> FALSE, Error |-> s.err]
    ELSE [WasSuccessful |-> TRUE, RecipientUuid |-> s.recipientUuid,
          Unidentified |-> s.sentUnidentified, Error |-> NoError]

\* A failed sync send turned into a failed SendMessage.
resultAfterSync_escalated(result, selfSendErr) ==
    IF selfSendErr.kind # "none"
    THEN [WasSuccessful |-> FALSE, RecipientUuid |-> AciUuid,
          Unidentified |-> FALSE, Error |-> selfSendErr]
    ELSE result

\* SendMessage, lines 943-949: a failing sync send is logged; the result
\* returned is the one of the send to the recipient.
resultAfterSync(result, selfSendErr) == result

\* SendMessage, lines 920-949: the result of the send to the recipient,
\* then the prekey fetch for the own account and the sync message to the
\* own other devices; a failing sync send is logged.
SendMessageResume(p) ==
    /\ snd[p].pc = "returned"
    /\ LET s == [snd[p] EXCEPT !.body = NoBody, !.log = <<>>,
                                !.nQuery = 0, !.first = NoAnswer, !.last = NoAnswer]
       IN  IF s.phase = "sync"
           THEN /\ snd' = [snd EXCEPT ![p] =
                     [s EXCEPT !.pc = "done", !.result = resultAfterSync(@, s.err)]]
                /\ dev' = dev
           ELSE IF s.err.kind # "none"
           THEN /\ snd' = [snd EXCEPT ![p] =
                     [s EXCEPT !.pc = "done", !.result = SendMessageResult(s)]]
                /\ dev' = dev
           ELSE \E got \in SUBSET DeviceIds, storeErr \in BOOLEAN :
                  LET sessions2 == FetchAndProcessPreKey(dev.sessions, AciUuid, AllDevices, got)
                      t == [s EXCEPT !.result = SendMessageResult(s),
                                     !.log = <<FetchEvent(AllDevices, got # {})>>]
                  IN  /\ dev' = [dev EXCEPT !.sessions = sessions2]
                      /\ snd' = [snd EXCEPT ![p] =
                            IF howManyOtherDevicesDoWeHave(sessions2, storeErr) > 0
                            THEN Call(t, "sync", AciUuid, s.messageTimestamp, "SyncMessage")
                            ELSE [t EXCEPT !.pc = "done", !.otherDevicesErr = storeErr]]

\* SendMessage has returned its result to the caller.
Return(p) ==
    /\ snd[p].pc = "done"
    /\ snd' = [snd EXCEPT ![p] = Idle]
    /\ UNCHANGED dev

Next ==
    \E p \in Procs :
        \/ SendMessage(p)
        \/ sendContent(p)
        \/ ReceiveResponse(p)
        \/ Retry(p)
        \/ SendMessageResume(p)
        \/ Return(p)

Spec == Init /\ [][Next]_vars

\* What a caller inside SendMessage does next.  Every step of it is a call
\* that returns: store calls and prekey fetches return, and a dispatched
\* request receives its response.
Step(p) == sendContent(p) \/ ReceiveResponse(p) \/ Retry(p) \/ SendMessageResume(p)

(* ---------------------------- group send ------------------------------ *)

\* The accounts a group is made of.
GroupAccounts == {"self", "alice", "bob"}

\* group.Members as RetrieveGroupByID gives it: members in some order, the
\* sender among them or not.
GroupMemberLists ==
    {<<"alice", "bob">>, <<"bob", "alice">>, <<"self", "alice", "bob">>,
     <<"alice", "self", "bob">>, <<"bob", "alice", "self">>, <<"self">>,
     <<"alice">>, <<"self", "alice">>, <<"alice", "self">>}

\* What a top-level sendContent call hands back to SendGroupMessage: the
\* pair (sentUnidentified, err) of its return statements (lines 973, 999,
\* 1027, 1047-1060, 1065, 1068).  SendGroupMessage only tests err against
\* nil, so one error value stands for all of them.
sendContentReturns ==
    {[sentUnidentified |-> u, err |-> e] :
        u \in BOOLEAN, e \in {NoError, Error("sendContent")}}

\* What a top-level sendContent call for recipientUuid may leave in the
\* Device: the recipient's sessions after prekey fetches and removals, and
\* a sender certificate cached by a sealed build.
sendContentEffects(d, recipientUuid) ==
    {[d EXCEPT !.sessions[recipientUuid] = after, !.SenderCertificate = @ \/ cert] :
        after \in SUBSET DeviceIds, cert \in BOOLEAN}

\* The Device when a group send starts: the own account's sessions as
\* earlier sends and prekey fetches left them, no session with a member yet.
GroupInit ==
    /\ dev \in {[sessions |-> [a \in GroupAccounts |-> IF a = AciUuid THEN own ELSE {}],
                  SenderCertificate |-> FALSE] : own \in SUBSET DeviceIds}
    /\ snd = [p \in Procs |-> Idle]

\* SendGroupMessage, lines 858-876: the group is retrieved and the data
\* message assembled; a group that cannot be retrieved ends the call with
\* (nil, err).  The members are accounts the Device's stores know.
SendGroupMessage(p) ==
    /\ snd[p].pc = "idle"
    /\ \/ snd' = [snd EXCEPT ![p] =
                    [@ EXCEPT !.pc = "done", !.phase = "group",
                              !.groupErr = Error("RetrieveGroup")]]
       \/ \E members \in {l \in GroupMemberLists : Range(l) \subseteq DOMAIN dev.sessions},
               messageTimestamp \in Timestamps :
            snd' = [snd EXCEPT ![p] =
                      [@ EXCEPT !.pc = "loop", !.phase = "group",
                                !.members = members, !.memberIndex = 1,
                                !.messageTimestamp = messageTimestamp,
                                !.content = "DataMessage"]]
    /\ UNCHANGED dev

\* SendGroupMessage, lines 878-881: the sender is not sent the data message.
skipMember(member) == member = AciUuid

\* The loop leaving at the first member whose send failed.
afterMember_abortOnFailure(s, err) ==
    IF err.kind # "none"
    THEN [s EXCEPT !.memberIndex = Len(s.members) + 1]
    ELSE [s EXCEPT !.memberIndex = @ + 1]

\* SendGroupMessage, line 877: the loop goes on to the next member whatever
\* the send to this one returned.
afterMember(s, err) == [s EXCEPT !.memberIndex = @ + 1]

\* SendGroupMessage, lines 883-895: the result of the send to a member is
\* appended to one of the two lists.
appendResult(groupResult, member, r) ==
    IF r.err.kind # "none"
    THEN [groupResult EXCEPT !.FailedToSendTo =
              Append(@, [RecipientUuid |-> member, Error |-> r.err])]
    ELSE [groupResult EXCEPT !.SuccessfullySentTo =
              Append(@, [RecipientUuid |-> member, Unidentified |-> r.sentUnidentified])]

\* SendGroupMessage, lines 877-895: one iteration of the loop over
\* group.Members.
SendGroupMessageLoop(p) ==
    /\ snd[p].pc = "loop"
    /\ snd[p].memberIndex <= Len(snd[p].members)
    /\ LET s == snd[p]
           member == s.members[s.memberIndex]
       IN  IF skipMember(member)
           THEN /\ snd' = [snd EXCEPT ![p] = [s EXCEPT !.memberIndex = @ + 1]]
                /\ dev' = dev
           ELSE \E r \in sendContentReturns :
                  /\ dev' \in sendContentEffects(dev, member)
                  /\ snd' = [snd EXCEPT ![p] =
                        [afterMember(s, r.err) EXCEPT
                            !.calls = Append(@, member),
                            !.groupResult = appendResult(@, member, r)]]

\* The sync message listing every member, the failed ones as well.
syncMessageFromGroupDataMessage_all(groupResult) ==
    [i \in 1..Len(groupResult.SuccessfullySentTo) |->
        [DestinationUuid |-> groupResult.SuccessfullySentTo[i].RecipientUuid,
         Unidentified |-> groupResult.SuccessfullySentTo[i].Unidentified]]
    \o [i \in 1..Len(groupResult.FailedToSendTo) |->
        [DestinationUuid |-> groupResult.FailedToSendTo[i].RecipientUuid,
         Unidentified |-> FALSE]]

\* syncMessageFromGroupDataMessage, lines 821-838: one unidentified-delivery
\* status per successful result (it is handed result.SuccessfullySentTo,
\* line 899).
syncMessageFromGroupDataMessage(groupResult) ==
    [i \in 1..Len(groupResult.SuccessfullySentTo) |->
        [DestinationUuid |-> groupResult.SuccessfullySentTo[i].RecipientUuid,
         Unidentified |-> groupResult.SuccessfullySentTo[i].Unidentified]]

\* SendGroupMessage, lines 897-907: after the loop, the sync message is sent
\* to the own account when it has other devices; its failure is logged and
\* (result, nil) returned.
SendGroupMessageSync(p) ==
    /\ snd[p].pc = "loop"
    /\ snd[p].memberIndex > Len(snd[p].members)
    /\ \E storeErr \in BOOLEAN :
         LET otherDevices == howManyOtherDevicesDoWeHave(dev.sessions, storeErr)
         IN  IF otherDevices > 0
             THEN \E r \in sendContentReturns :
                    /\ dev' \in sendContentEffects(dev, AciUuid)
                    /\ snd' = [snd EXCEPT ![p] =
                          [@ EXCEPT !.pc = "done",
                                    !.otherDevices = otherDevices,
                                    !.calls = Append(@, AciUuid),
                                    !.syncContent =
                                        syncMessageFromGroupDataMessage(snd[p].groupResult),
                                    !.err = r.err]]
             ELSE /\ dev' = dev
                  /\ snd' = [snd EXCEPT ![p] =
                               [@ EXCEPT !.pc = "done", !.otherDevices = otherDevices]]

GroupNext ==
    \E p \in Procs :
        \/ SendGroupMessage(p)
        \/ SendGroupMessageLoop(p)
        \/ SendGroupMessageSync(p)

\* A group send against a store as earlier sends left it.
GroupSpec == GroupInit /\ [][GroupNext]_vars

\* 1:1 sends and group sends, one after the other, against the same Device.
SendNext == Next \/ GroupNext

SendSpec == Init /\ [][SendNext]_vars

(* ------------------- the sends with the selector's inputs ------------- *)

\* sendContent with the outcome of the profile-key lookup kept in the
\* caller's record.
sendContentKeyed(p) ==
    \E pk \in ProfileKeyOutcomes : sendContentWith(p, pk, {"key", "store"}, StoreAnswers)

SelectorNext ==
    \E p \in Procs :
        \/ SendMessage(p)
        \/ sendContentKeyed(p)
        \/ ReceiveResponse(p)
        \/ Retry(p)

\* The send to the recipient of one SendMessage, from an empty store, up to
\* the return of sendContent, with the selector's inputs kept.
SelectorSpec == Init /\ [][SelectorNext]_vars

(* ------------- the sends against a store of any behaviour ------------- *)

\* sendContent with a session store that may hand back nil slices or
\* lists of different lengths, the answers kept in the caller's record.
sendContentAnyStore(p) ==
    \E pk \in ProfileKeyOutcomes : sendContentWith(p, pk, {"key", "store"}, AnyStoreAnswers)

BuildNext ==
    \E p \in Procs :
        \/ SendMessage(p)
        \/ sendContentAnyStore(p)
        \/ ReceiveResponse(p)
        \/ Retry(p)

\* The send to the recipient of one SendMessage, from an empty store, up to
\* the return of sendContent, whatever the session store hands back.
BuildSpec == Init /\ [][BuildNext]_vars

(* ----------------------- one SendMessage call ------------------------- *)

SyncNext ==
    \E p \in Procs :
        \/ SendMessage(p)
        \/ sendContent(p)
        \/ ReceiveResponse(p)
        \/ Retry(p)
        \/ SendMessageResume(p)

\* One SendMessage call against a Device without sessions, from the send
\* to the recipient to the end of the sync send.
SyncSpec == Init /\ [][SyncNext]_vars

(* ------------------- the portal's message loop ----------------------- *)

\* The goroutines that call ReceiveMatrixEvent and those that hand Signal
\* messages to a portal.
MatrixCallers == {"m1", "m2"}

SignalCallers == {"s1"}

\* A Go channel: the buffered values and, in the order in which they
\* blocked, the senders waiting for room with the values they send.
EmptyChan == [buf |-> <<>>, sendq |-> <<>>]

\* ch <- msg by goroutine c on a channel of capacity MaxBuffer: the value
\* enters the buffer when there is room, else the sender waits.
chanSend(ch, c, msg) ==
    IF Len(ch.buf) < MaxBuffer /\ ch.sendq = <<>>
    THEN [ch EXCEPT !.buf = Append(@, msg)]
    ELSE [ch EXCEPT !.sendq = Append(@, [c |-> c, msg |-> msg])]

\* A channel with a value to receive.
chanReady(ch) == ch.buf # <<>> \/ ch.sendq # <<>>

\* <-ch: the oldest value; the sender that waited longest, if any, puts
\* its value into the buffer and goes on.
chanRecv(ch) ==
    IF ch.buf # <<>>
    THEN [msg |-> Head(ch.buf),
          ch |-> IF ch.sendq # <<>>
                 THEN [buf |-> Append(Tail(ch.buf), Head(ch.sendq).msg), sendq |-> Tail(ch.sendq)]
                 ELSE [ch EXCEPT !.buf = Tail(@)],
          woken |-> IF ch.sendq # <<>> THEN {Head(ch.sendq).c} ELSE {}]
    ELSE [msg |-> Head(ch.sendq).msg,
          ch |-> [ch EXCEPT !.sendq = Tail(@)],
          woken |-> {Head(ch.sendq).c}]

\* A loop that starts each handler in a goroutine of its own.
loopReady_spawns(running) == TRUE

\* messageLoop, lines 273-280: the loop calls the handler and comes back to
\* the select when the handler has returned.
loopReady(running) == running = {}

\* NewPortal, lines 258-267: a portal with empty channels and its loop
\* started.  running holds the messages whose handler has been called and
\* has not returned, started every message in the order in which its
\* handler was called, enqueued the Matrix messages in the order in which
\* ReceiveMatrixEvent sent them to the channel, nEvents the messages
\* handed to the portal so far.
NewPortal ==
    /\ dev = [matrixMessages |-> EmptyChan, signalMessages |-> EmptyChan,
              running |-> {}, started |-> <<>>, enqueued |-> <<>>, nEvents |-> 0]
    /\ snd = [c \in MatrixCallers \cup SignalCallers |-> [pc |-> "idle"]]

\* ReceiveMatrixEvent, lines 123-127: the event of a permitted user is sent
\* to the portal's channel; the caller waits while the channel is full.
ReceiveMatrixEvent(c) ==
    /\ c \in MatrixCallers
    /\ snd[c].pc = "idle"
    /\ dev.nEvents < MaxEvents
    /\ \E permitted \in BOOLEAN :
         LET msg == [kind |-> "matrix", id |-> dev.nEvents + 1]
         IN  IF permitted
             THEN \E ch \in {chanSend(dev.matrixMessages, c, msg)} :
                    /\ dev' = [dev EXCEPT !.matrixMessages = ch, !.nEvents = @ + 1,
                                          !.enqueued = Append(@, msg)]
                    /\ snd' = [snd EXCEPT ![c].pc =
                                 IF ch.sendq # dev.matrixMessages.sendq THEN "blocked" ELSE "idle"]
             ELSE /\ dev' = [dev EXCEPT !.nEvents = @ + 1]
                  /\ snd' = snd

\* A Signal message handed to the portal's channel.
ReceiveSignalMessage(c) ==
    /\ c \in SignalCallers
    /\ snd[c].pc = "idle"
    /\ dev.nEvents < MaxEvents
    /\ \E ch \in {chanSend(dev.signalMessages, c, [kind |-> "signal", id |-> dev.nEvents + 1])} :
         /\ dev' = [dev EXCEPT !.signalMessages = ch, !.nEvents = @ + 1]
         /\ snd' = [snd EXCEPT ![c].pc =
                      IF ch.sendq # dev.signalMessages.sendq THEN "blocked" ELSE "idle"]

\* messageLoop, lines 275-276: a Matrix message is received and its
\* handler called.
messageLoopMatrix ==
    /\ loopReady(dev.running)
    /\ chanReady(dev.matrixMessages)
    /\ \E r \in {chanRecv(dev.matrixMessages)} :
         /\ dev' = [dev EXCEPT !.matrixMessages = r.ch, !.running = @ \cup {r.msg},
                               !.started = Append(@, r.msg)]
         /\ snd' = [c \in DOMAIN snd |-> IF c \in r.woken THEN [pc |-> "idle"] ELSE snd[c]]

\* messageLoop, lines 277-278: a Signal message is received and its
\* handler called.
messageLoopSignal ==
    /\ loopReady(dev.running)
    /\ chanReady(dev.signalMessages)
    /\ \E r \in {chanRecv(dev.signalMessages)} :
         /\ dev' = [dev EXCEPT !.signalMessages = r.ch, !.running = @ \cup {r.msg},
                               !.started = Append(@, r.msg)]
         /\ snd' = [c \in DOMAIN snd |-> IF c \in r.woken THEN [pc |-> "idle"] ELSE snd[c]]

\* handleMatrixMessages or handleSignalMessages returns.
handlerReturns ==
    /\ \E msg \in dev.running : dev' = [dev EXCEPT !.running = @ \ {msg}]
    /\ UNCHANGED snd

PortalNext ==
    \/ \E c \in MatrixCallers : ReceiveMatrixEvent(c)
    \/ \E c \in SignalCallers : ReceiveSignalMessage(c)
    \/ messageLoopMatrix
    \/ messageLoopSignal
    \/ handlerReturns

\* One portal, its message loop and the goroutines that hand it messages.
PortalSpec == NewPortal /\ [][PortalNext]_vars

(* ------------------- the portal's send of a Matrix message ----------- *)

\* What SendGroupMessage may return as its error.
GroupSendErrors == {"none", "No group master key found for group identifier", "other"}

\* Portal.sendSignalMessage: the error it returns (err) and the value of
\* the group branch's own err when the branch ends (innerErr).  chat says whether the
\* chat id is a UUID ("direct") or a group identifier ("group"); directErr
\* is the error of SendMessage's result ("none": successful); groupErr the
\* error of SendGroupMessage, nSuccess and nFailed the lengths of its
\* result's lists.  The group branch declares result and err anew
\* (result, err := ...): the error it makes when no member was sent to is
\* assigned to that inner err, and the function's last line returns the
\* outer one, which the group branch never assigns.
sendSignalMessage(chat, directErr, groupErr, nSuccess, nFailed) ==
    LET outerErr == IF chat = "direct" THEN directErr ELSE "none"
        innerErr == IF chat = "direct" THEN "none"
                    ELSE IF groupErr # "none" THEN groupErr
                    ELSE IF nSuccess = 0 /\ nFailed > 0
                    THEN "failed to send to any members of Signal group"
                    ELSE "none"
    IN  IF chat = "group" /\ groupErr # "none"
        THEN [err |-> innerErr, innerErr |-> innerErr]
        ELSE [err |-> outerErr, innerErr |-> innerErr]

\* A portal about to send a converted Matrix message.  stored says that
\* the event was stored in the message database as sent, innerErr what the
\* group branch of sendSignalMessage left in its own err.
MatrixSendInit ==
    /\ dev = [sessions |-> [a \in Accounts |-> {}], SenderCertificate |-> FALSE]
    /\ snd \in [Procs -> {[pc |-> "converted", chat |-> c, directErr |-> d, groupErr |-> g,
                             nSuccess |-> ns, nFailed |-> nf, err |-> "none",
                             innerErr |-> "none",
                             stored |-> FALSE] :
                               c \in {"direct", "group"}, d \in {"none", "send"},
                               g \in GroupSendErrors,
                               ns \in 0..MaxRecipients, nf \in 0..MaxRecipients}]

\* Portal.handleMatrixMessage, line 377: the call of sendSignalMessage.
sendSignalMessageCall(p) ==
    /\ snd[p].pc = "converted"
    /\ \E r \in {sendSignalMessage(snd[p].chat, snd[p].directErr, snd[p].groupErr,
                                    snd[p].nSuccess, snd[p].nFailed)} :
         snd' = [snd EXCEPT ![p] =
                   [@ EXCEPT !.pc = "sent", !.err = r.err, !.innerErr = r.innerErr]]
    /\ UNCHANGED dev

\* Portal.handleMatrixMessage, lines 379-386: the event is stored as sent
\* when sendSignalMessage returned no error.
storeMessageInDB(p) ==
    /\ snd[p].pc = "sent"
    /\ snd' = [snd EXCEPT ![p] = [@ EXCEPT !.pc = "handled", !.stored = (snd[p].err = "none")]]
    /\ UNCHANGED dev

MatrixSendNext == \E p \in Procs : sendSignalMessageCall(p) \/ storeMessageInDB(p)

\* A portal handling one Matrix message, for every result of the send.
MatrixSendSpec == MatrixSendInit /\ [][MatrixSendNext]_vars

(* ------------------- the sender mode of each attempt ------------------ *)

\* One call of sendContent, the outcome of the profile-key lookup and the
\* sender modes of the attempts staying in the caller's record.
sendContentModes(p) ==
    \E pk \in ProfileKeyOutcomes : sendContentWith(p, pk, {"key", "modes"}, StoreAnswers)

ModeNext ==
    \E p \in Procs :
        \/ SendMessage(p)
        \/ sendContentModes(p)
        \/ ReceiveResponse(p)
        \/ Retry(p)

\* The send to the recipient of one SendMessage call, the sender mode of
\* every attempt remembered.
ModeSpec == Init /\ [][ModeNext]_vars

(* ------------------- the batch of a retry ----------------------------- *)

\* The recursive call, the response and the repair that led to it staying
\* in the caller's record.
RetryAfterRepair(p) == RetryWith(p, TRUE)

RepairNext ==
    \E p \in Procs :
        \/ SendMessage(p)
        \/ sendContent(p)
        \/ ReceiveResponse(p)
        \/ RetryAfterRepair(p)

\* The send to the recipient of one SendMessage call, each retry
\* remembering the response it answers.
RepairSpec == Init /\ [][RepairNext]_vars

(* ---------------------- sealed encryptions ---------------------------- *)

\* A Device without a sender certificate and a caller that made no sealed
\* encryption yet.  nSealed counts the calls of buildSSMessageToSend,
\* nRequest the certificate requests issued; fetch is what the latest
\* request came to ("none": no request issued by the latest call),
\* recipientDeviceID the device the latest call encrypted for.
CertInit ==
    /\ dev = [sessions |-> [a \in Accounts |-> {}], SenderCertificate |-> FALSE]
    /\ snd = [p \in Procs |-> [pc |-> "sealed", nSealed |-> 0, nRequest |-> 0,
                                fetch |-> "none", recipientDeviceID |-> 0,
                                envelopeType |-> 0,
                                encryptedPayload |-> "", err |-> "none"]]

\* buildMessagesToSend, line 728: one sealed encryption on the Device, for
\* one device of a recipient.
buildSSMessageToSendCall(p) ==
    /\ snd[p].nSealed < CounterCap
    /\ \E id \in DeviceIds, fetch \in CertificateFetches, encryptOk \in BOOLEAN :
         LET e == buildSSMessageToSend(dev.SenderCertificate, fetch, encryptOk)
         IN  /\ dev' = [dev EXCEPT !.SenderCertificate = e.cached]
             /\ snd' = [snd EXCEPT ![p] =
                          [@ EXCEPT !.nSealed = @ + 1,
                                    !.nRequest = IF e.requested THEN @ + 1 ELSE @,
                                    !.fetch = IF e.requested THEN fetch ELSE "none",
                                    !.recipientDeviceID = id,
                                    !.envelopeType = e.envelopeType,
                                    !.encryptedPayload = e.encryptedPayload,
                                    !.err = e.err]]

CertNext == \E p \in Procs : buildSSMessageToSendCall(p)

\* The sealed encryptions of a Device's lifetime, one after the other.
CertSpec == CertInit /\ [][CertNext]_vars

(* ------------------- header lines of any form ------------------------- *)

\* The response to the request, whatever the form of its header lines.
ReceiveResponseAnyHeaders(p) == ReceiveResponseWith(p, HeaderForms)

RateLimitNext ==
    \E p \in Procs :
        \/ SendMessage(p)
        \/ sendContent(p)
        \/ ReceiveResponseAnyHeaders(p)
        \/ Retry(p)
        \/ SendMessageResume(p)

\* One SendMessage call whose responses carry header lines of any form.
RateLimitSpec == Init /\ [][RateLimitNext]_vars

(* ------------------- the sends next to other sends --------------------- *)

\* What the other sends running against the same Device do to it while
\* this one runs: the sessions of an account change, a certificate is
\* stored.
OtherSend ==
    /\ \E a \in DOMAIN dev.sessions : dev' \in sendContentEffects(dev, a)
    /\ UNCHANGED snd

ConcurrentNext ==
    \/ \E p \in Procs :
          \/ SendMessage(p)
          \/ sendContent(p)
          \/ ReceiveResponse(p)
          \/ Retry(p)
          \/ SendMessageResume(p)
    \/ GroupNext
    \/ OtherSend

\* One 1:1 send or group send of a caller, with other sends running
\* concurrently against the same Device.
ConcurrentSpec == Init /\ [][ConcurrentNext]_vars

(* ------------------- the sends under a cancelled context -------------- *)

\* The caller's context is cancelled while sendContent waits for the
\* response (line 1030).  The receive of line 1030 names no other channel:
\* the step leaves the send where it is.
Cancel(p) ==
    /\ snd[p].pc = "wait" /\ ~snd[p].cancelled
    /\ snd' = [snd EXCEPT ![p] = [@ EXCEPT !.cancelled = TRUE]]
    /\ UNCHANGED dev

CancelNext ==
    \E p \in Procs :
        \/ SendMessage(p)
        \/ sendContent(p)
        \/ ReceiveResponse(p)
        \/ Retry(p)
        \/ Cancel(p)

\* The send to the recipient of one SendMessage up to the return of
\* sendContent, with a context that may be cancelled during the wait.  The
\* steps of the caller's own goroutine are taken when they can be; the
\* arrival of a response is the transport's doing and is not assured.
CancelSpec ==
    /\ Init /\ [][CancelNext]_vars
    /\ \A p \in Procs : WF_vars(sendContent(p)) /\ WF_vars(Retry(p))

(* ------------------------------ padding ------------------------------- *)

\* addPadding: the block size of the padded plaintext.
PaddingBlockSize == 160

\* padBlock: the terminator byte 0x80.
PaddingTerminator == 128

\* The byte values plaintexts are made of: zero, the terminator's value,
\* and another one.
Bytes == {0, PaddingTerminator, 65}

RECURSIVE SeqsUpTo(_, _)
\* The sequences over S of length up to n.
SeqsUpTo(S, n) ==
    IF n = 0 THEN {<<>>}
    ELSE LET shorter == SeqsUpTo(S, n - 1)
         IN  shorter \cup {Append(t, b) : t \in {u \in shorter : Len(u) = n - 1}, b \in S}

\* The plaintexts handed to addPadding: a run of one byte value, of a
\* length at or next to a multiple of the block size, then any short tail.
Contents ==
    {[i \in 1..n |-> 65] \o tail :
        n \in {m \in 0..(MaxBlocks * PaddingBlockSize) :
                  m % PaddingBlockSize \in {0, 1, PaddingBlockSize - 2, PaddingBlockSize - 1}},
        tail \in SeqsUpTo(Bytes, MaxTail)}

\* A padBlock that writes a terminator of another value.
padBlock_wrongTerminator(block, pos) ==
    IF pos >= Len(block)
    THEN [err |-> TRUE, block |-> block]
    ELSE [err |-> FALSE,
          block |-> [i \in 1..Len(block) |->
                        IF i - 1 < pos THEN block[i] ELSE IF i - 1 = pos THEN 1 ELSE 0]]

\* padBlock: the terminator at position pos (counted from 0) and zeros
\* after it; an error when pos is not inside the block.
padBlock(block, pos) ==
    IF pos >= Len(block)
    THEN [err |-> TRUE, block |-> block]
    ELSE [err |-> FALSE,
          block |-> [i \in 1..Len(block) |->
                        IF i - 1 < pos THEN block[i]
                        ELSE IF i - 1 = pos THEN PaddingTerminator ELSE 0]]

\* An addPadding that sizes the buffer for the contents without terminator.
addPadding_noTerminatorRoom(version, contents) ==
    IF version < 2 THEN [buffer |-> <<>>, err |-> "UnknownVersion"]
    ELSE IF version = 2 THEN [buffer |-> contents, err |-> "none"]
    ELSE
        LET messageLength == Len(contents)
            messagePartCount ==
                (messageLength \div PaddingBlockSize)
                + (IF messageLength % PaddingBlockSize # 0 THEN 1 ELSE 0)
            messageLengthWithPadding == messagePartCount * PaddingBlockSize
            buffer == [i \in 1..messageLengthWithPadding |->
                          IF i <= messageLength THEN contents[i] ELSE 0]
            padded == padBlock(buffer, messageLength)
        IN  IF padded.err
            THEN [buffer |-> <<>>, err |-> "InvalidPadding"]
            ELSE [buffer |-> padded.block, err |-> "none"]

\* addPadding: (padded contents, err).
addPadding(version, contents) ==
    IF version < 2 THEN [buffer |-> <<>>, err |-> "UnknownVersion"]
    ELSE IF version = 2 THEN [buffer |-> contents, err |-> "none"]
    ELSE
        LET messageLength == Len(contents)
            messageLengthWithTerminator == Len(contents) + 1
            messagePartCount ==
                (messageLengthWithTerminator \div PaddingBlockSize)
                + (IF messageLengthWithTerminator % PaddingBlockSize # 0 THEN 1 ELSE 0)
            messageLengthWithPadding == messagePartCount * PaddingBlockSize
            buffer == [i \in 1..messageLengthWithPadding |->
                          IF i <= messageLength THEN contents[i] ELSE 0]
            padded == padBlock(buffer, messageLength)
        IN  IF padded.err
            THEN [buffer |-> <<>>, err |-> "InvalidPadding"]
            ELSE [buffer |-> padded.block, err |-> "none"]

\* The receiver's unpadding: the last non-zero byte must be the terminator;
\* it and the zeros after it are dropped.
stripPadding(buffer) ==
    LET nonZero == {i \in 1..Len(buffer) : buffer[i] # 0}
    IN  IF nonZero = {} THEN [contents |-> <<>>, err |-> "NoTerminator"]
        ELSE LET last == CHOOSE i \in nonZero : \A j \in nonZero : j <= i
             IN  IF buffer[last] # PaddingTerminator
                 THEN [contents |-> <<>>, err |-> "NoTerminator"]
                 ELSE [contents |-> SubSeq(buffer, 1, last - 1), err |-> "none"]

\* A caller about to pad contents with a padding version.
PadInit ==
    /\ dev = [sessions |-> [a \in Accounts |-> {}], SenderCertificate |-> FALSE]
    /\ snd \in [Procs -> {[pc |-> "pad", version |-> v, contents |-> c,
                             buffer |-> <<>>, err |-> "none",
                             unpadded |-> <<>>, stripErr |-> "none"] :
                               v \in 0..MaxVersion, c \in Contents}]

\* The call of addPadding.
addPaddingCall(p) ==
    /\ snd[p].pc = "pad"
    /\ LET r == addPadding(snd[p].version, snd[p].contents)
       IN  snd' = [snd EXCEPT ![p] = [@ EXCEPT !.pc = "padded",
                                               !.buffer = r.buffer, !.err = r.err]]
    /\ UNCHANGED dev

\* The receiver unpads what addPadding gave.
stripPaddingCall(p) ==
    /\ snd[p].pc = "padded" /\ snd[p].err = "none"
    /\ LET r == stripPadding(snd[p].buffer)
       IN  snd' = [snd EXCEPT ![p] = [@ EXCEPT !.pc = "unpadded",
                                               !.unpadded = r.contents,
                                               !.stripErr = r.err]]
    /\ UNCHANGED dev

PadNext ==
    \E p \in Procs :
        \/ addPaddingCall(p)
        \/ stripPaddingCall(p)

\* addPadding applied to each plaintext and version, then unpadded.
PadSpec == PadInit /\ [][PadNext]_vars

(* ------------------------------ claims -------------------------------- *)

\* C1: one logical send dispatches at most 4 requests (retry depths 0..3),
\* whatever retryable statuses come back; the call entered at depth 4 ends
\* with the too-many-retries error and has done no profile-key lookup, no
\* envelope build and no dispatch (the counts stay at 4) and holds no
\* response.
C1_RetryDepthBound ==
    \A p \in Procs :
        LET s == snd[p]
        IN  /\ s.retryCount <= 4
            /\ s.nDispatch <= 4 /\ s.nLookup <= 4 /\ s.nBuild <= 4
            /\ s.nDispatch <= s.nBuild /\ s.nBuild = s.nLookup
            /\ s.pc = "enter" => s.nLookup = s.retryCount /\ s.nDispatch = s.retryCount
            /\ (s.retryCount = 4 /\ s.pc # "enter") =>
                   /\ s.err.kind = "TooManyRetries"
                   /\ s.nLookup = 4 /\ s.nBuild = 4 /\ s.nDispatch = 4
            /\ s.err.kind = "TooManyRetries" => s.retryCount = 4 /\ s.status = 0

\* C1 witness: a send that ended retry-exhausted after four dispatches.
C1_Witness ==
    \E p \in Procs :
        /\ snd[p].pc = "returned"
        /\ snd[p].err.kind = "TooManyRetries"
        /\ snd[p].nDispatch = 4

\* C2: sendContent returns a nil error exactly when the last request it
\* dispatched received status 200, and SendMessage reports WasSuccessful
\* exactly then; every other outcome carries an error.
C2_SuccessOnlyOn200 ==
    \A p \in Procs :
        LET s == snd[p]
        IN  /\ s.pc = "returned" => ((s.err.kind = "none") <=> (s.status = 200))
            /\ s.pc = "returned" /\ s.err.kind = "none" => s.sendReq = "ok" /\ s.nDispatch >= 1
            /\ (s.pc = "done" /\ s.phase = "primary") =>
                   /\ s.result.WasSuccessful <=> (s.status = 200)
                   /\ ~s.result.WasSuccessful => s.result.Error = s.err /\ s.err.kind # "none"
            /\ (s.pc \in {"enter", "wait", "retry", "returned"} /\ s.phase = "primary") =>
                   ~s.result.WasSuccessful
            /\ s.phase = "sync" => s.result.WasSuccessful

\* C2 witness: a send reported successful after at least one retry.
C2_Witness ==
    \E p \in Procs :
        /\ snd[p].pc = "done" /\ snd[p].phase = "primary"
        /\ snd[p].result.WasSuccessful
        /\ snd[p].retryCount > 0

\* C3: within one logical send, once a request has received status 200 no
\* further request is dispatched: the dispatch count stays as it is for as
\* long as that send lasts.
C3_NoDispatchAfter200 ==
    [][\A p \in Procs :
          (snd[p].got200 /\ snd'[p].got200) =>
              /\ snd'[p].nDispatch = snd[p].nDispatch
              /\ snd'[p].pc \in {"returned", "done"}]_vars

\* C3 witness: a send that received 200 on a retry that followed a 409.
C3_Witness ==
    \E p \in Procs :
        /\ snd[p].got200
        /\ snd[p].nDispatch = 2
        /\ snd[p].pc = "returned"

\* How far a caller inside SendMessage is from its return: the send to the
\* recipient comes before the sync send, a lower retry depth before a higher
\* one, and within a depth the entry, the wait, the recursion and the return
\* follow each other.
Rank(s) ==
    (IF s.phase = "primary" THEN 100 ELSE 0)
    + (IF s.pc = "done" THEN 0
       ELSE 4 * (CounterCap - s.retryCount)
            + (IF s.pc = "enter" THEN 3
               ELSE IF s.pc = "wait" THEN 2
               ELSE IF s.pc = "retry" THEN 1
               ELSE 0))

Active(s) == s.pc \in {"enter", "wait", "retry", "returned"}

NonRetryable(status) == status \notin {0, 200, 409, 410, 428, 500, 503}

\* C5: a response with a status outside {200, 409, 410, 428, 500, 503} ends
\* the send at once as a failure whose error carries that status: the step
\* that receives it and every later step of that send does no prekey fetch
\* and no session removal, leaves the session store as it is and dispatches
\* nothing.
C5_NonRetryableStatusFails ==
    /\ [](\A p \in Procs :
            NonRetryable(snd[p].status) =>
                /\ snd[p].pc \in {"returned", "done"}
                /\ snd[p].err = [kind |-> "UnexpectedStatus", code |-> snd[p].status]
                /\ snd[p].log = <<>>)
    /\ [][\A p \in Procs :
            NonRetryable(snd'[p].status) =>
                /\ dev'.sessions = dev.sessions
                /\ snd'[p].nDispatch = snd[p].nDispatch
                /\ snd'[p].retryCount = snd[p].retryCount
                /\ snd'[p].log = <<>>]_vars

\* C5 witness: a SendMessage reported failed with status 404 received on
\* a retry.
C5_Witness ==
    \E p \in Procs :
        /\ snd[p].pc = "done"
        /\ snd[p].status = 404
        /\ snd[p].retryCount = 1
        /\ ~snd[p].result.WasSuccessful
        /\ snd[p].result.Error.code = 404

\* C6: when SendRequest returns an error, sendContent returns that error:
\* no retry follows, no repair is done, and from then on the send
\* dispatches nothing and leaves the session store as it is.
C6_TransportErrorSurfaced ==
    /\ [](\A p \in Procs :
            snd[p].sendReq = "err" =>
                /\ snd[p].pc \in {"returned", "done"}
                /\ snd[p].err.kind = "Transport"
                /\ snd[p].status # 200
                /\ \A i \in 1..Len(snd[p].log) : snd[p].log[i] = FetchEvent(AllDevices, TRUE))
    /\ [][\A p \in Procs :
            /\ (snd[p].sendReq = "err" /\ snd'[p].sendReq = "err") =>
                  /\ dev'.sessions = dev.sessions
                  /\ snd'[p].nDispatch = snd[p].nDispatch
                  /\ snd'[p].retryCount = snd[p].retryCount
            /\ (snd[p].sendReq # "err" /\ snd'[p].sendReq = "err") =>
                  /\ snd'[p].nDispatch = snd[p].nDispatch
                  /\ snd'[p].retryCount = snd[p].retryCount
                  /\ (snd'[p].log = <<>> => dev'.sessions = dev.sessions)]_vars

\* C6 witness: a retry (after a 500) whose submission failed, reported as a
\* failed SendMessage.
C6_Witness ==
    \E p \in Procs :
        /\ snd[p].pc = "done" /\ snd[p].phase = "primary"
        /\ snd[p].sendReq = "err"
        /\ snd[p].retryCount = 1
        /\ snd[p].result.Error.kind = "Transport"

\* The events of a log that are op on device id.
Events(log, op, id) == {i \in 1..Len(log) : log[i].op = op /\ log[i].id = id}

\* C7: when a 409 has been handled and the retry at depth+1 is about to be
\* made, exactly one targeted prekey fetch has been done for each missing
\* device and exactly one session removal for each extra device, nothing
\* else, and none of it after a further dispatch; the sessions of devices
\* named in neither list are as they were before the response.
C7_Repair409BeforeRetry ==
    /\ [](\A p \in Procs :
            LET s == snd[p]
                missing == Range(s.body.missingDevices)
                extra == Range(s.body.extraDevices)
            IN  (s.pc = "retry" /\ s.status = 409) =>
                  /\ \A id \in missing : Cardinality(Events(s.log, "fetch", id)) = 1
                  /\ \A id \in extra : Cardinality(Events(s.log, "remove", id)) = 1
                  /\ \A id \in extra : id \notin dev.sessions[s.recipientUuid]
                  /\ Len(s.log) = Cardinality(missing) + Cardinality(extra)
                  /\ \A i \in 1..Len(s.log) :
                        \/ s.log[i].op = "fetch" /\ s.log[i].id \in missing
                        \/ s.log[i] = RemoveEvent(s.log[i].id, TRUE) /\ s.log[i].id \in extra
                  /\ s.nDispatch = s.retryCount + 1)
    /\ [][\A p \in Procs :
            LET t == snd'[p]
                named == Range(t.body.missingDevices) \cup Range(t.body.extraDevices)
            IN  (snd[p].pc = "wait" /\ t.pc = "retry" /\ t.status = 409) =>
                  /\ \A a \in Accounts \ {t.recipientUuid} : dev'.sessions[a] = dev.sessions[a]
                  /\ dev'.sessions[t.recipientUuid] \ named = dev.sessions[t.recipientUuid] \ named
                  /\ \A id \in Range(t.body.missingDevices) :
                        (id \in dev'.sessions[t.recipientUuid]) <=>
                            (id \in dev.sessions[t.recipientUuid]
                             \/ FetchEvent(id, TRUE) \in Range(t.log))]_vars

\* C7 witness: the retry after a 409 naming device 2 missing and device 1
\* extra, with one fetch and one removal done.
C7_Witness ==
    \E p \in Procs :
        /\ snd[p].pc = "retry" /\ snd[p].status = 409
        /\ snd[p].body.missingDevices = <<2>>
        /\ snd[p].body.extraDevices = <<1>>
        /\ snd[p].log = <<FetchEvent(2, TRUE), RemoveEvent(1, TRUE)>>
        /\ dev.sessions[snd[p].recipientUuid] = {2}

\* C8: handling a 410, the session of each stale device is removed and only
\* then the prekey bundle of that device fetched; when the retry at depth+1
\* is about to be made every listed device has been through both, in list
\* order.
C8_Repair410RemoveThenFetch ==
    \A p \in Procs :
        LET s == snd[p]
            stale == s.body.staleDevices
        IN  /\ (s.status = 410 /\ (s.pc = "retry" \/ s.err.kind = "RemoveSession")) =>
                  \A i \in 1..Len(s.log) :
                      s.log[i].op = "fetch" =>
                          i > 1 /\ s.log[i - 1] = RemoveEvent(s.log[i].id, TRUE)
            /\ (s.status = 410 /\ s.pc = "retry") =>
                  /\ Len(s.log) = 2 * Len(stale)
                  /\ \A k \in 1..Len(stale) :
                        /\ s.log[2 * k - 1] = RemoveEvent(stale[k], TRUE)
                        /\ s.log[2 * k].op = "fetch" /\ s.log[2 * k].id = stale[k]
                  /\ s.nDispatch = s.retryCount + 1

\* C8 witness: the retry after a 410 naming devices 1 and 2 stale.
C8_Witness ==
    \E p \in Procs :
        /\ snd[p].pc = "retry" /\ snd[p].status = 410
        /\ snd[p].body.staleDevices = <<1, 2>>
        /\ Len(snd[p].log) = 4

\* C9 (as claimed): when a repair action of a 409 or 410 fails (a session
\* removal, or the prekey fetch for a missing or stale device), the send
\* ends with an error and no retry is made.
C9_RepairFailureAborts ==
    \A p \in Procs :
        LET s == snd[p]
        IN  (s.status \in {409, 410} /\ \E i \in 1..Len(s.log) : ~s.log[i].ok) =>
                /\ s.pc # "retry"
                /\ s.err.kind # "none"

\* C10 (as claimed): when the encryption for a recipient device fails or
\* the cipher reports an unknown ciphertext kind, no batch is dispatched:
\* no request in flight carries an envelope without a ciphertext.
C10_EncryptionFailureNotDispatched ==
    \A p \in Procs :
        snd[p].pc = "wait" =>
            \A i \in 1..Len(snd[p].messages) :
                /\ snd[p].messages[i].Content # ""
                /\ snd[p].messages[i].Type # 0

\* C11 (as claimed): every envelope of every batch handed to the transport
\* has a type in {CIPHERTEXT, PREKEY_BUNDLE, UNIDENTIFIED_SENDER}: an
\* authenticated batch holds only CIPHERTEXT and PREKEY_BUNDLE envelopes, a
\* sealed batch only UNIDENTIFIED_SENDER envelopes, also when the cipher or
\* the certificate fetch fails.
C11_EnvelopeTypesOfDispatchedBatches ==
    \A p \in Procs :
        snd[p].pc = "wait" =>
            \A i \in 1..Len(snd[p].messages) :
                IF snd[p].useUnidentifiedSender
                THEN snd[p].messages[i].Type = Envelope_UNIDENTIFIED_SENDER
                ELSE snd[p].messages[i].Type \in {Envelope_CIPHERTEXT, Envelope_PREKEY_BUNDLE}

\* C12: the outcome of the sync send to the own account never changes
\* what the caller gets.  In SendMessage the result set after the send to
\* the recipient is successful and stays as it is until the return, also
\* when the sync send ends with an error; in SendGroupMessage the step that
\* makes the sync send leaves both result lists as the loop left them and
\* returns a nil error.
C12_SyncFailureSwallowed ==
    /\ [](\A p \in Procs :
            snd[p].phase = "sync" =>
                /\ snd[p].result.WasSuccessful
                /\ snd[p].result.Error = NoError
                /\ snd[p].result.RecipientUuid # AciUuid)
    /\ [][\A p \in Procs :
            /\ (snd[p].phase = "sync" /\ snd'[p].phase = "sync") =>
                  snd'[p].result = snd[p].result
            /\ (snd[p].pc = "loop" /\ snd'[p].pc = "done") =>
                  /\ snd'[p].groupResult = snd[p].groupResult
                  /\ snd'[p].groupErr = NoError]_vars

\* C12 witness: SendMessage about to return a successful result after its
\* sync send ended with an error.
C12_Witness ==
    \E p \in Procs :
        /\ snd[p].pc = "done" /\ snd[p].phase = "sync"
        /\ snd[p].err.kind # "none"
        /\ snd[p].result.WasSuccessful
        /\ snd[p].result.RecipientUuid = "alice"

NotSelf(member) == member # AciUuid

\* The recipients of a list of send results, in order.
Recipients(results) == [i \in 1..Len(results) |-> results[i].RecipientUuid]

\* C13: SendGroupMessage calls sendContent for every member other than the
\* sender exactly once, in member order, whatever the sends to earlier
\* members returned: at every point of the loop the data-message sends made
\* so far are the non-self members among those passed, each with one entry
\* in exactly one of the two result lists; on return the two lists together
\* hold every non-self member once and never the sender.
C13_EveryMemberAttemptedOnce ==
    \A p \in Procs :
        LET s == snd[p]
            passed == SubSeq(s.members, 1, s.memberIndex - 1)
            sent == SelectSeq(s.calls, NotSelf)
            ok == Recipients(s.groupResult.SuccessfullySentTo)
            failed == Recipients(s.groupResult.FailedToSendTo)
        IN  (s.phase = "group" /\ s.groupErr = NoError) =>
              /\ s.memberIndex \in 1..(Len(s.members) + 1)
              /\ sent = SelectSeq(passed, NotSelf)
              /\ s.pc = "loop" => s.calls = sent
              /\ s.pc = "done" => passed = s.members
              /\ Len(ok) + Len(failed) = Len(sent)
              /\ \A m \in Range(sent) :
                    Cardinality({i \in 1..Len(ok) : ok[i] = m})
                    + Cardinality({i \in 1..Len(failed) : failed[i] = m}) = 1
              /\ AciUuid \notin Range(ok) \cup Range(failed)
              /\ ok = SelectSeq(sent, LAMBDA m : m \in Range(ok))
              /\ failed = SelectSeq(sent, LAMBDA m : m \in Range(failed))

\* C13 witness: a group send returned with the first member failed and the
\* member after the sender sent to.
C13_Witness ==
    \E p \in Procs :
        /\ snd[p].pc = "done" /\ snd[p].phase = "group"
        /\ snd[p].members = <<"alice", "self", "bob">>
        /\ Recipients(snd[p].groupResult.FailedToSendTo) = <<"alice">>
        /\ Recipients(snd[p].groupResult.SuccessfullySentTo) = <<"bob">>

C15_SelectorFailureDowngrades ==
    \A p \in Procs :
        LET s == snd[p]
        IN  /\ s.profileKey \in {"lookuperr", "nokey", "deriveerr"} =>
                /\ ~s.useUnidentifiedSender
                /\ s.pc = "wait" =>
                      /\ s.request.ws = "AuthedWS"
                      /\ ~s.request.accessKeyHeader
                /\ s.pc \in {"wait", "returned"} => ~s.sentUnidentified
                /\ s.pc = "returned" => ~SendMessageResult(s).Unidentified
                /\ (s.pc = "returned" /\ s.status = 200) => s.err = NoError
            /\ s.err.kind \in {"none", "TooManyRetries", "Store", "Nil", "Mismatched", "NoSessions",
                               "RegistrationID", "Transport", "Unmarshal", "RemoveSession",
                               "UnexpectedStatus"}

\* C15 witness: a send that succeeded in authenticated mode, on a retry,
\* after the access-key derivation failed.
C15_Witness ==
    \E p \in Procs :
        /\ snd[p].pc = "returned" /\ snd[p].phase = "primary"
        /\ snd[p].profileKey = "deriveerr"
        /\ snd[p].retryCount = 1
        /\ SendMessageResult(snd[p]).WasSuccessful
        /\ ~SendMessageResult(snd[p]).Unidentified

\* C16 (as claimed): a request goes out in sealed-sender mode, over the
\* unauthenticated connection with the unidentified-access-key header, only
\* when a sender certificate was obtained: while such a request is in
\* flight the Device holds a certificate (the certificate, once fetched,
\* is kept for the lifetime of the Device).
C16_SealedRequestHasCertificate ==
    \A p \in Procs :
        (/\ snd[p].pc = "wait"
         /\ snd[p].request.ws = "UnauthedWS"
         /\ snd[p].request.accessKeyHeader) => dev.SenderCertificate

\* C17: every request in flight is a PUT to /v1/messages/{recipient of the
\* call}; it carries the unidentified-access-key header and goes over the
\* unauthenticated connection exactly when the selector chose sealed mode
\* for the attempt, and then no envelope of its batch comes from the
\* authenticated path (none has type CIPHERTEXT or PREKEY_BUNDLE);
\* otherwise it goes over the authenticated connection without the header,
\* and no envelope has type UNIDENTIFIED_SENDER.
C17_RequestFollowsSelector ==
    \A p \in Procs :
        LET s == snd[p]
        IN  s.pc = "wait" =>
              /\ s.request.verb = "PUT"
              /\ s.request.path = s.recipientUuid
              /\ s.request.accessKeyHeader <=> s.useUnidentifiedSender
              /\ s.request.ws = "UnauthedWS" <=> s.useUnidentifiedSender
              /\ s.request.ws = "AuthedWS" <=> ~s.useUnidentifiedSender
              /\ s.sentUnidentified <=> s.useUnidentifiedSender
              /\ \A i \in 1..Len(s.messages) :
                    IF s.useUnidentifiedSender
                    THEN s.messages[i].Type \notin {Envelope_CIPHERTEXT, Envelope_PREKEY_BUNDLE}
                    ELSE s.messages[i].Type # Envelope_UNIDENTIFIED_SENDER

\* C17 witness: a sealed request to the own account in flight (the sync
\* send), after the send to the recipient went out authenticated.
C17_Witness ==
    \E p \in Procs :
        /\ snd[p].pc = "wait" /\ snd[p].phase = "sync"
        /\ snd[p].request.path = AciUuid
        /\ snd[p].request.ws = "UnauthedWS"
        /\ snd[p].request.accessKeyHeader
        /\ ~snd[p].result.Unidentified
        /\ \A i \in 1..Len(snd[p].messages) :
              snd[p].messages[i].Type = Envelope_UNIDENTIFIED_SENDER

\* C18: in each envelope build, when the first query of the session store
\* gives no error and no session (both lists empty), exactly one prekey
\* fetch for all devices is made and the store is queried exactly once
\* more; when the first query gives an error, or gives addresses and
\* session records, the build makes no prekey fetch, queries the store
\* once and leaves the sessions as they were.
C18_OneFetchWhenNoSessions ==
    [][\A p \in Procs :
         (snd[p].pc = "enter" /\ snd'[p].nQuery > 0) =>
            LET first == snd'[p].first
                log == snd'[p].log
            IN  /\ \E answer \in AnyStoreAnswers :
                      first = AllSessionsForUUID(dev.sessions, snd[p].recipientUuid, answer)
                /\ (~first.err /\ first.addresses = <<>> /\ first.sessionRecords = <<>>) =>
                      /\ snd'[p].nQuery = 2
                      /\ Len(log) = 1
                      /\ log[1].op = "fetch" /\ log[1].id = AllDevices
                /\ (first.err \/ (first.addresses # <<>> /\ first.sessionRecords # <<>>)) =>
                      /\ snd'[p].nQuery = 1
                      /\ log = <<>>
                      /\ dev'.sessions = dev.sessions
      ]_vars

\* C18 witness: a request in flight after a build that found no session,
\* fetched the prekeys of all devices and queried the store again.
C18_Witness ==
    \E p \in Procs :
        /\ snd[p].pc = "wait"
        /\ ~snd[p].first.err /\ snd[p].first.addresses = <<>>
        /\ snd[p].nQuery = 2
        /\ snd[p].log = <<FetchEvent(AllDevices, TRUE)>>
        /\ dev.sessions[snd[p].recipientUuid] # {}

\* The lists of a store answer are unusable: nil, empty, or of two lengths.
BadLists(q) ==
    \/ q.isNil
    \/ Len(q.addresses) = 0 \/ Len(q.sessionRecords) = 0
    \/ Len(q.addresses) # Len(q.sessionRecords)

\* C19: when the last store query of an envelope build (the one after the
\* prekey fetch, if there was one) gave an error, or a nil or empty address
\* or session-record list, or lists of different lengths, sendContent
\* returns a session-resolution error at once: no envelope is built, no
\* request is dispatched by that call (the dispatches are those of the
\* earlier attempts), no request is in flight and no retry is pending; the
\* result SendMessage makes of it is a failure carrying that error.  A
\* session-resolution error is returned in no other case.
C19_SessionResolutionFailureIsFinal ==
    \A p \in Procs :
        LET s == snd[p]
        IN  /\ (s.nQuery > 0 /\ (s.last.err \/ BadLists(s.last))) =>
                /\ s.pc = "returned"
                /\ s.err.kind = IF s.last.err THEN "Store"
                                ELSE IF s.last.isNil THEN "Nil"
                                ELSE IF Len(s.last.addresses) # Len(s.last.sessionRecords)
                                THEN "Mismatched"
                                ELSE "NoSessions"
                /\ s.messages = <<>> /\ s.request = NoRequest
                /\ s.sendReq = "none"
                /\ s.nDispatch = s.retryCount
                /\ ~s.sentUnidentified
                /\ ~SendMessageResult(s).WasSuccessful
                /\ SendMessageResult(s).Error = s.err
            /\ s.err.kind \in {"Store", "Nil", "Mismatched", "NoSessions"} =>
                /\ s.nQuery > 0
                /\ s.last.err \/ BadLists(s.last)

\* C19 witness: on a retry, a store answer with fewer session records than
\* addresses ends the send with the mismatch error.
C19_Witness ==
    \E p \in Procs :
        /\ snd[p].pc = "returned"
        /\ snd[p].retryCount = 1
        /\ snd[p].err.kind = "Mismatched"
        /\ Len(snd[p].last.addresses) = 2 /\ Len(snd[p].last.sessionRecords) = 1
        /\ snd[p].nDispatch = 1

\* C20: a build over N >= 1 addresses with pairwise distinct device ids and
\* N session records gives a batch of exactly N envelopes in address
\* order: envelope i carries the device id of address i and the
\* registration id of session record i, and the destination device ids of
\* the batch are exactly the device ids of the addresses.
C20_OneEnvelopePerAddress ==
    \A p \in Procs :
        LET s == snd[p]
            N == Len(s.last.addresses)
        IN  s.pc = "wait" =>
              /\ N >= 1
              /\ Len(s.last.sessionRecords) = N
              /\ \A i, j \in 1..N : i # j => s.last.addresses[i] # s.last.addresses[j]
              /\ Len(s.messages) = N
              /\ \A i \in 1..N :
                    /\ s.messages[i].DestinationDeviceID = s.last.addresses[i]
                    /\ s.messages[i].DestinationRegistrationID =
                          GetRemoteRegistrationID(s.last.sessionRecords[i])
              /\ {s.messages[i].DestinationDeviceID : i \in 1..Len(s.messages)}
                    = Range(s.last.addresses)
              /\ Range(s.last.addresses) = dev.sessions[s.recipientUuid]

\* C20 witness: a batch of two envelopes for the two devices of the
\* recipient, in the order of the addresses.
C20_Witness ==
    \E p \in Procs :
        /\ snd[p].pc = "wait"
        /\ snd[p].last.addresses = <<1, 2>>
        /\ Len(snd[p].messages) = 2
        /\ snd[p].messages[1].DestinationDeviceID = 1
        /\ snd[p].messages[2].DestinationDeviceID = 2
        /\ snd[p].messages[2].DestinationRegistrationID = GetRemoteRegistrationID(2)

\* C21: addPadding fails for a version below 2 and gives back the contents
\* as they are for version 2; for a version of 3 or more the result is as
\* long as the smallest multiple of 160 that holds the contents and one
\* byte more, begins with the contents, has 0x80 right after them and
\* zeros from there on, for every length of the contents.
C21_AddPadding ==
    \A p \in Procs :
        LET s == snd[p]
            n == Len(s.contents)
        IN  s.pc = "padded" =>
              /\ s.version < 2 => s.err # "none"
              /\ s.version = 2 => s.err = "none" /\ s.buffer = s.contents
              /\ s.version >= 3 =>
                    /\ s.err = "none"
                    /\ Len(s.buffer) % 160 = 0
                    /\ Len(s.buffer) >= n + 1
                    /\ Len(s.buffer) - 160 < n + 1
                    /\ \A i \in 1..n : s.buffer[i] = s.contents[i]
                    /\ s.buffer[n + 1] = 128
                    /\ \A i \in (n + 2)..Len(s.buffer) : s.buffer[i] = 0

\* C21 witness: contents of 160 bytes padded into two blocks.
C21_Witness ==
    \E p \in Procs :
        /\ snd[p].pc = "padded" /\ snd[p].version = 3
        /\ Len(snd[p].contents) = 160
        /\ Len(snd[p].buffer) = 320
        /\ snd[p].buffer[161] = 128

\* C22: unpadding what addPadding gave for a version of 3 or more (the
\* last non-zero byte must be 0x80; it and the zeros after it are dropped)
\* succeeds and gives exactly the contents, also for contents that end in
\* 0x80 or in zero bytes.
C22_PaddingRoundTrip ==
    \A p \in Procs :
        (snd[p].pc = "unpadded" /\ snd[p].version >= 3) =>
            /\ snd[p].stripErr = "none"
            /\ snd[p].unpadded = snd[p].contents

\* C22 witness: contents ending in 0x80 and a zero byte recovered.
C22_Witness ==
    \E p \in Procs :
        /\ snd[p].pc = "unpadded" /\ snd[p].version >= 3
        /\ Len(snd[p].contents) = 160
        /\ snd[p].contents[159] = 128 /\ snd[p].contents[160] = 0
        /\ snd[p].unpadded = snd[p].contents

\* C23 (as claimed): a send whose context is cancelled while it waits for
\* the response of the transport eventually leaves the wait, whether or not
\* a response arrives.
C23_CancelledWaitReturns ==
    \A p \in Procs :
        (snd[p].pc = "wait" /\ snd[p].cancelled) ~> (snd[p].pc # "wait")

\* The requests of the running top-level sendContent call that were
\* dispatched and not answered yet.
Outstanding(s) == s.nDispatch - s.nResponse

C27_NoRepairFor428_500_503 ==
    [][\A p \in Procs :
         LET s == snd[p]
             t == snd'[p]
         IN  /\ (s.pc = "wait" /\ t.pc # "wait" /\ t.status \in {428, 500, 503}) =>
                   /\ dev' = dev
                   /\ t.log = <<>>
                   /\ t.nLookup = s.nLookup
                   /\ IF t.status = 428 /\ ~t.body.ok
                      THEN t.pc = "returned" /\ t.err.kind = "Unmarshal"
                      ELSE t.pc = "retry"
             /\ (s.pc = "retry" /\ s.status \in {428, 500, 503} /\ t # s) =>
                   /\ dev' = dev
                   /\ t.pc = "enter"
                   /\ t.retryCount = s.retryCount + 1]_vars

\* C28: a sealed encryption on a Device that holds a sender certificate
\* issues no certificate request, keeps the certificate and does not fail
\* for the certificate; one on a Device that holds none issues exactly one
\* request, and the Device holds a certificate afterwards exactly when the
\* request and the decoding of its answer succeeded: after a failure the
\* Device holds none and the encryption returns the error.
C28_CertificateFetchedOnceAndReused ==
    [][\A p \in Procs :
         LET s == snd[p]
             t == snd'[p]
         IN  t.nSealed = s.nSealed + 1 =>
               IF dev.SenderCertificate
               THEN /\ t.nRequest = s.nRequest
                    /\ t.fetch = "none"
                    /\ dev'.SenderCertificate
                    /\ t.err = "none"
                    /\ t.envelopeType = Envelope_UNIDENTIFIED_SENDER
               ELSE /\ t.nRequest = s.nRequest + 1
                    /\ t.fetch \in CertificateFetches
                    /\ dev'.SenderCertificate <=> t.fetch = "ok"
                    /\ t.fetch # "ok" => t.err = "Certificate" /\ t.envelopeType = 0
                    /\ t.fetch = "ok" => t.err = "none"]_vars

\* C28 witness: a Device whose first certificate request failed and whose
\* second succeeded, after two more sealed encryptions that issued no
\* request.
C28_Witness ==
    \E p \in Procs :
        /\ snd[p].pc = "sealed"
        /\ snd[p].nSealed = 4
        /\ snd[p].nRequest = 2
        /\ snd[p].fetch = "none"
        /\ dev.SenderCertificate

\* The devices a batch holds an envelope for.
Destinations(messages) == {messages[i].DestinationDeviceID : i \in 1..Len(messages)}

\* The devices whose session the repair before a retry removed as extra.
RemovedAsExtra(s) ==
    {id \in Range(s.body.extraDevices) : RemoveEvent(id, TRUE) \in Range(s.log)}

\* The missing or stale devices for which a prekey fetch of the repair
\* before a retry established a session.
Established(s) ==
    {id \in Range(s.body.missingDevices) \cup Range(s.body.staleDevices) :
        FetchEvent(id, TRUE) \in Range(s.log)}

\* A sendContent call entered by the recursion that follows a 409 or 410.
RetryOfRepair(s) == s.pc = "enter" /\ s.retryCount > 0 /\ s.status \in {409, 410}

\* The claim's wording of C29: every batch dispatched by the retry after a
\* 409 or 410 holds no envelope for a device removed as extra and one for
\* every missing or stale device whose prekey fetch established a session.
C29_RetryBatchWithoutRemovedDevices ==
    [][\A p \in Procs :
         LET s == snd[p]
             t == snd'[p]
         IN  (RetryOfRepair(s) /\ t.pc = "wait") =>
                /\ RemovedAsExtra(s) \cap Destinations(t.messages) = {}
                /\ Established(s) \subseteq Destinations(t.messages)]_vars

\* C29: every attempt that dispatches a batch built it in the same call
\* from the store as that call found it: one envelope per session of the
\* recipient, the sessions being those the store held when the call began
\* or, when it held none, those of the all-devices prekey fetch; the batch
\* is dispatched once and gone when its response is received.  The batch
\* of the retry after a 409 or 410 holds an envelope for every missing or
\* stale device whose prekey fetch established a session, and none for a
\* device removed as extra unless the repair left the recipient without a
\* session and the all-devices prekey fetch of the retry established one
\* for that device again.
C29_RetryBatchFromCurrentStore ==
    [][\A p \in Procs :
         LET s == snd[p]
             t == snd'[p]
             before == dev.sessions[s.recipientUuid]
             after == dev'.sessions[s.recipientUuid]
         IN  /\ (s.pc = "enter" /\ t.pc = "wait") =>
                   /\ t.nBuild = s.nBuild + 1
                   /\ t.nDispatch = s.nDispatch + 1
                   /\ Destinations(t.messages) = after
                   /\ Len(t.messages) = Cardinality(after)
                   /\ before # {} => after = before
             /\ (RetryOfRepair(s) /\ t.pc = "wait") =>
                   /\ Established(s) \subseteq Destinations(t.messages)
                   /\ before # {} => RemovedAsExtra(s) \cap Destinations(t.messages) = {}
                   /\ before = {} =>
                         /\ FetchEvent(AllDevices, TRUE) \in Range(t.log)
                         /\ Established(s) = {}
             /\ t.nDispatch > s.nDispatch => s.pc = "enter" /\ t.pc = "wait"
             /\ (s.pc = "wait" /\ t.pc # "wait") => t.messages = <<>>]_vars

\* C29 witness: the batch of the retry after a 409 that named device 2
\* missing and device 1 extra: an envelope for device 2, fetched by the
\* repair, and none for device 1.
C29_Witness ==
    \E p \in Procs :
        /\ snd[p].pc = "wait"
        /\ snd[p].retryCount = 1
        /\ snd[p].body.missingDevices = <<2>>
        /\ snd[p].body.extraDevices = <<1>>
        /\ Destinations(snd[p].messages) = {2}
        /\ dev.sessions[snd[p].recipientUuid] = {2}

\* C30: no batch dispatched to the sender's own account holds an envelope
\* whose destination device id is the sending device's own id.
C30_SyncBatchOmitsSendingDevice ==
    \A p \in Procs :
        (snd[p].pc = "wait" /\ snd[p].request.path = AciUuid) =>
            MyDeviceId \notin Destinations(snd[p].messages)

\* C31: every attempt chooses its sender mode from its own profile-key
\* lookup, and its request carries that mode; a send that succeeded reports
\* as sealed the mode of its last attempt, the one answered with 200,
\* whatever the modes of the attempts before it.
C31_ResultModeIsLastAttempts ==
    \A p \in Procs :
        LET s == snd[p]
            n == Len(s.modes)
        IN  /\ s.pc = "wait" =>
                  /\ n = s.retryCount + 1
                  /\ s.modes[n] = useUnidentifiedSender(s.profileKey)
                  /\ s.request.accessKeyHeader = s.modes[n]
                  /\ s.request.ws = (IF s.modes[n] THEN "UnauthedWS" ELSE "AuthedWS")
            /\ (s.pc = "returned" /\ s.err = NoError) =>
                  /\ s.status = 200
                  /\ n = s.retryCount + 1
                  /\ SendMessageResult(s).WasSuccessful
                  /\ SendMessageResult(s).Unidentified = s.modes[n]

\* C31 witness: a send whose first attempt was sealed and whose retry, not
\* sealed, was answered with 200: the result says not sealed.
C31_Witness ==
    \E p \in Procs :
        /\ snd[p].pc = "returned"
        /\ snd[p].err = NoError
        /\ snd[p].modes = <<TRUE, FALSE>>
        /\ ~SendMessageResult(snd[p]).Unidentified

\* C32: a 409, 410 or 428 response whose body is not valid JSON ends the
\* call with the decoding error, with no prekey fetch and no session
\* removal, and nothing is dispatched for the send afterwards; a 500 or a
\* 503 leads to the recursive call whether or not its body is valid JSON.
C32_UnparseableBodyEndsTheSend ==
    [][\A p \in Procs :
         LET s == snd[p]
             t == snd'[p]
         IN  /\ (s.pc = "wait" /\ t.pc # "wait" /\ ~t.body.ok) =>
                   /\ t.status \in {409, 410, 428, 500, 503}
                   /\ dev' = dev
                   /\ t.log = <<>>
                   /\ IF t.status \in {500, 503}
                      THEN t.pc = "retry"
                      ELSE /\ t.pc = "returned"
                           /\ t.err = Error("Unmarshal")
                           /\ ~t.sentUnidentified
             /\ (s.pc \in {"returned", "done"} /\ s.err = Error("Unmarshal") /\ t # s) =>
                   /\ t.pc = "done"
                   /\ t.nDispatch = s.nDispatch
                   /\ dev' = dev]_vars

\* C32 witness: a send ended by a 410 whose body did not parse, received
\* on the retry that followed a 503 whose body did not parse either.
C32_Witness ==
    \E p \in Procs :
        /\ snd[p].pc = "returned"
        /\ snd[p].status = 410
        /\ ~snd[p].body.ok
        /\ snd[p].err = Error("Unmarshal")
        /\ snd[p].retryCount = 1
        /\ snd[p].nDispatch = 2

\* C33: for a group chat whose send returned a result, sendSignalMessage
\* returns an error exactly when no member was sent to and at least one
\* failed, and the event is stored as sent exactly when it returned none.
C33_GroupSendFailedForAllIsAnError ==
    \A p \in Procs :
        LET s == snd[p]
        IN  (s.pc \in {"sent", "handled"} /\ s.chat = "group" /\ s.groupErr = "none") =>
               /\ s.err # "none" <=> (s.nSuccess = 0 /\ s.nFailed > 0)
               /\ s.pc = "handled" => (s.stored <=> s.err = "none")

\* The Matrix messages of a sequence of messages, in its order.
MatrixOnly(msgs) == SelectSeq(msgs, LAMBDA m : m.kind = "matrix")

\* C34: at most one handler of a portal runs at a time, whatever the kind
\* of its message, and the Matrix messages are handled in the order in
\* which ReceiveMatrixEvent sent them to the channel, each once.
C34_OneHandlerAtATimeInOrder ==
    /\ Cardinality(dev.running) <= 1
    /\ LET handled == MatrixOnly(dev.started)
       IN  /\ Len(handled) <= Len(dev.enqueued)
           /\ handled = SubSeq(dev.enqueued, 1, Len(handled))

\* C34 witness: the loop has handled a Signal message and two Matrix
\* messages, these in the order in which they were sent to the channel, and
\* is in the handler of the second.
C34_Witness ==
    /\ Len(dev.started) = 3
    /\ MatrixOnly(dev.started) = dev.enqueued
    /\ Len(dev.enqueued) = 2
    /\ dev.started[1].kind = "signal"
    /\ dev.running = {dev.enqueued[2]}

(* ------------- portal: incoming Signal messages and the DB ------------- *)

\* The Signal users whose messages reach the portal.
SignalSenders == {"alice", "bob"}

\* portal.Receiver, and the receiver of another user's portal of the chat.
PortalReceiver == "receiver"

OtherReceiver == "other"

\* The part indexes of the messages delivered (a message and its second
\* part).
PartIndexes == {0, 1}

\* The rows of the message table a delivery to the portal can name.
SignalIDs ==
    [sender : SignalSenders, timestamp : Timestamps, partIndex : PartIndexes,
     receiver : {PortalReceiver}]

\* DB.Message.GetBySignalID: the row of (sender, timestamp, part index,
\* receiver), if there is one; the query can fail.
GetBySignalID(db, sender, timestamp, partIndex, receiver, queryOk) ==
    LET row == [sender |-> sender, timestamp |-> timestamp,
                partIndex |-> partIndex, receiver |-> receiver]
    IN  [err |-> IF queryOk THEN "none" ELSE "query",
         found |-> queryOk /\ row \in db]

\* portal.storeMessageInDB: inserts the row of the message with the
\* portal's receiver; a failed insert is logged only.
dbMessageInsert(db, sender, timestamp, partIndex, receiver, insertOk) ==
    IF insertOk
    THEN db \cup {[sender |-> sender, timestamp |-> timestamp,
                   partIndex |-> partIndex, receiver |-> receiver]}
    ELSE db

\* handleSignalTextMessage: the event sent to Matrix (sent), and the row
\* stored when Matrix answered with an event id.
handleSignalTextMessage(db, sender, timestamp, partIndex, sendOk, eventID, insertOk) ==
    IF ~sendOk
    THEN [err |-> "send", sent |-> FALSE, db |-> db]
    ELSE IF eventID = ""
    THEN [err |-> "noEventID", sent |-> TRUE, db |-> db]
    ELSE [err |-> "none", sent |-> TRUE,
          db |-> dbMessageInsert(db, sender, timestamp, partIndex,
                                 PortalReceiver, insertOk)]

\* handleSignalMessages without the test for a row of the message.
handleSignalMessages_noDuplicateTest(db, mxid, msg, in) ==
    IF mxid = "" /\ ~in.roomOk
    THEN [result |-> "noRoom", db |-> db, mxid |-> mxid, sent |-> FALSE]
    ELSE IF ~in.intentOk
    THEN [result |-> "noIntent", db |-> db, mxid |-> "!room", sent |-> FALSE]
    ELSE IF msg.type = "text"
    THEN LET r == handleSignalTextMessage(db, msg.sender, msg.timestamp,
                      msg.partIndex, in.sendOk, in.eventID, in.insertOk)
         IN  [result |-> IF r.err = "none" THEN "handled" ELSE r.err,
              db |-> r.db, mxid |-> "!room", sent |-> r.sent]
    ELSE [result |-> "unknownType", db |-> db, mxid |-> "!room", sent |-> FALSE]

\* handleSignalMessages: a message whose row exists, or whose row could not
\* be looked up, is dropped before anything else is done; otherwise the
\* room is created if the portal has none, and the message is handled by
\* its type.
handleSignalMessages(db, mxid, msg, in) ==
    LET existingMessage == GetBySignalID(db, msg.sender, msg.timestamp,
                               msg.partIndex, PortalReceiver, in.queryOk)
    IN  IF existingMessage.err # "none"
        THEN [result |-> "queryFailed", db |-> db, mxid |-> mxid, sent |-> FALSE]
        ELSE IF existingMessage.found
        THEN [result |-> "duplicate", db |-> db, mxid |-> mxid, sent |-> FALSE]
        ELSE handleSignalMessages_noDuplicateTest(db, mxid, msg, in)

\* What the database and Matrix answer during one call: everything works,
\* or one step fails (the steps after a failed one are not reached).
HandlerInputs ==
    LET allOk == [queryOk |-> TRUE, roomOk |-> TRUE, intentOk |-> TRUE,
                  sendOk |-> TRUE, eventID |-> "$event", insertOk |-> TRUE]
    IN  {allOk, [allOk EXCEPT !.eventID = ""]}
           \cup {[allOk EXCEPT ![f] = FALSE] :
                    f \in {"queryOk", "roomOk", "intentOk", "sendOk", "insertOk"}}

\* A portal with or without a room; the table is empty or holds the row of
\* a message bridged by the other receiver's portal of the same chat.
DedupInit ==
    /\ \E rows \in {{}, {[sender |-> "alice", timestamp |-> 1,
                           partIndex |-> 0, receiver |-> OtherReceiver]}},
          mxid \in {"", "!room"} :
          dev = [db |-> rows, mxid |-> mxid, rooms |-> 0,
                 events |-> [k \in SignalIDs |-> 0], nEvents |-> 0]
    /\ snd = [result |-> "none"]

\* The message loop calls handleSignalMessages with the next message.
handleSignalMessagesCall ==
    /\ dev.nEvents < MaxEvents
    /\ \E k \in SignalIDs, type \in {"text", "unknown"}, in \in HandlerInputs :
          \E r \in {handleSignalMessages(dev.db, dev.mxid,
                        [sender |-> k.sender, timestamp |-> k.timestamp,
                         partIndex |-> k.partIndex, type |-> type], in)} :
             /\ dev' = [dev EXCEPT
                          !.db = r.db,
                          !.mxid = r.mxid,
                          !.rooms = IF r.mxid # dev.mxid THEN @ + 1 ELSE @,
                          !.events[k] = IF r.sent THEN @ + 1 ELSE @,
                          !.nEvents = @ + 1]
             /\ snd' = [result |-> r.result, id |-> k, type |-> type,
                        stored |-> k \in dev.db]

DedupNext == handleSignalMessagesCall

DedupSpec == DedupInit /\ [][DedupNext]_vars

ProvUsers == {"@u1", "@u2"}

\* provisioningHandle{}: the value of a cleared slot (nil cancel, nil channel).
EmptyHandle == [login |-> 0, user |-> "none"]

\* signalmeow.ProvisioningResponse: its State and whether Err is set.
ProvisioningResponses ==
    [State : {"URLReceived", "DataReceived", "PreKeysRegistered", "Error"},
     Err : BOOLEAN]

\* The timeout case of the select statements.
Timeout == [State |-> "timeout", Err |-> FALSE]

\* ProvisioningAPI.Init: no handles, no users; nobody is connected and the
\* login command is not running.
NewProvisioningAPI ==
    [provisioningHandles |-> <<>>, provisioningUsers |-> <<>>,
     cancelled |-> {}, reads |-> {}, connected |-> {}, nLogins |-> 0,
     nRequests |-> 0,
     command |-> [pc |-> "idle", read |-> <<>>, signalID |-> ""]]

\* The last request served: who asked for what, and what came of it.
NoProvRequest ==
    [req |-> "none", user |-> "none", sessionID |-> 0, result |-> "none",
     login |-> 0, resp |-> Timeout]

\* CancelLink that takes the slot out of the list.
CancelLink_removesSlot(prov, user) ==
    IF user \in DOMAIN prov.provisioningUsers
    THEN LET sessionID == prov.provisioningUsers[user]
             h == prov.provisioningHandles
         IN  IF sessionID >= Len(h)
             THEN prov
             ELSE [prov EXCEPT
                     !.cancelled = @ \cup ({h[sessionID + 1].login} \ {0}),
                     !.provisioningHandles =
                         SubSeq(h, 1, sessionID) \o SubSeq(h, sessionID + 2, Len(h)),
                     !.provisioningUsers = [x \in DOMAIN @ \ {user} |-> @[x]]]
    ELSE prov

\* CancelLink: cancels the context of the user's session, clears its slot
\* and deletes the user's entry; nothing for a user without an entry.
CancelLink(prov, user) ==
    IF user \in DOMAIN prov.provisioningUsers
    THEN LET sessionID == prov.provisioningUsers[user]
             h == prov.provisioningHandles
         IN  IF sessionID >= Len(h)
             THEN prov
             ELSE [prov EXCEPT
                     !.cancelled = @ \cup ({h[sessionID + 1].login} \ {0}),
                     !.provisioningHandles[sessionID + 1] = EmptyHandle,
                     !.provisioningUsers = [x \in DOMAIN @ \ {user} |-> @[x]]]
    ELSE prov

\* The cases of a select on the handle's channel and a timer: a nil channel
\* is never ready.
selectResponse(handle) ==
    IF handle = EmptyHandle
    THEN {Timeout}
    ELSE ProvisioningResponses \cup {Timeout}

\* The answer to a response that was waited for as state `expected`.
responseResult(resp, expected) ==
    IF resp = Timeout THEN "timeout"
    ELSE IF resp.Err \/ resp.State = "Error" THEN "error"
    ELSE IF resp.State # expected THEN "unexpectedState"
    ELSE "ok"

\* The record of a response read from the channel of a login.
readOf(handle, resp, user) ==
    IF resp = Timeout
    THEN {}
    ELSE {[login |-> handle.login, by |-> user]}

\* LinkNew, run from its first to its last statement.
LinkNew(u) ==
    /\ dev.nLogins < MaxLogins
    /\ dev.nRequests < MaxRequests
    /\ \E loginOk \in BOOLEAN :
          LET prov == CancelLink(dev, u)
              login == dev.nLogins + 1
              handle == [login |-> login, user |-> u]
              handles == Append(prov.provisioningHandles, handle)
              sessionID == Len(handles) - 1
          IN  IF ~loginOk
              THEN /\ dev' = [prov EXCEPT !.nRequests = @ + 1]
                   /\ snd' = [NoProvRequest EXCEPT !.req = "new", !.user = u,
                                               !.result = "loginError"]
              ELSE \E resp \in selectResponse(handle) :
                      /\ dev' = [prov EXCEPT
                                   !.provisioningHandles = handles,
                                   !.provisioningUsers =
                                       [x \in DOMAIN @ \cup {u} |->
                                          IF x = u THEN sessionID ELSE @[x]],
                                   !.nLogins = login,
                                   !.nRequests = @ + 1,
                                   !.reads = @ \cup readOf(handle, resp, u)]
                      /\ snd' = [req |-> "new", user |-> u,
                                 sessionID |-> sessionID, login |-> login,
                                 resp |-> resp,
                                 result |-> responseResult(resp, "URLReceived")]

\* Logout: CancelLink for the user, and 200.
Logout(u) ==
    /\ dev.nRequests < MaxRequests
    /\ dev' = [CancelLink(dev, u) EXCEPT !.nRequests = @ + 1]
    /\ snd' = [NoProvRequest EXCEPT !.req = "logout", !.user = u, !.result = "ok"]

\* The part LinkWaitForScan and LinkWaitForAccount share: the test of the
\* session id against the user's entry, the handle taken from the list, and
\* the select on its channel.
linkWait(prov, user, sessionID, expected) ==
    IF user \in DOMAIN prov.provisioningUsers
          /\ prov.provisioningUsers[user] # sessionID
    THEN {[result |-> "rejected", handle |-> EmptyHandle, resp |-> Timeout]}
    ELSE IF sessionID < 0 \/ sessionID >= Len(prov.provisioningHandles)
    THEN {[result |-> "panic", handle |-> EmptyHandle, resp |-> Timeout]}
    ELSE LET handle == prov.provisioningHandles[sessionID + 1]
         IN  {[result |-> responseResult(resp, expected), handle |-> handle,
               resp |-> resp] : resp \in selectResponse(handle)}

\* LinkWaitForScan with a session id (any integer Atoi accepts).
LinkWaitForScan(u) ==
    /\ dev.nRequests < MaxRequests
    /\ \E sessionID \in -1..MaxLogins :
          \E r \in linkWait(dev, u, sessionID, "DataReceived") :
             /\ dev' = [dev EXCEPT
                          !.reads = @ \cup readOf(r.handle, r.resp, u),
                          !.nRequests = @ + 1]
             /\ snd' = [req |-> "scan", user |-> u, sessionID |-> sessionID,
                        login |-> r.handle.login, resp |-> r.resp,
                        result |-> r.result]

\* LinkWaitForAccount with a session id: user.Connect() after the answer to
\* the prekeys-registered state.
LinkWaitForAccount(u) ==
    /\ dev.nRequests < MaxRequests
    /\ \E sessionID \in -1..MaxLogins :
          \E r \in linkWait(dev, u, sessionID, "PreKeysRegistered") :
             /\ dev' = [dev EXCEPT
                          !.reads = @ \cup readOf(r.handle, r.resp, u),
                          !.connected = IF r.result = "ok" THEN @ \cup {u} ELSE @,
                          !.nRequests = @ + 1]
             /\ snd' = [req |-> "account", user |-> u, sessionID |-> sessionID,
                        login |-> r.handle.login, resp |-> r.resp,
                        result |-> r.result]

ProvInit ==
    /\ dev = NewProvisioningAPI
    /\ snd = NoProvRequest

ProvNext ==
    \E u \in ProvUsers :
        \/ LinkNew(u)
        \/ Logout(u)
        \/ LinkWaitForScan(u)
        \/ LinkWaitForAccount(u)

ProvSpec == ProvInit /\ [][ProvNext]_vars

\* Each user with an entry is registered with the index of a slot that
\* holds the live handle of that user's own login, and with no other user's.
RegistryOk(prov) ==
    LET h == prov.provisioningHandles
        users == prov.provisioningUsers
    IN  /\ \A u \in DOMAIN users :
              /\ users[u] \in 0..(Len(h) - 1)
              /\ h[users[u] + 1] # EmptyHandle
              /\ h[users[u] + 1].user = u
              /\ h[users[u] + 1].login \notin prov.cancelled
        /\ \A u, v \in DOMAIN users : users[u] = users[v] => u = v

\* C36: every user has at most one entry, that of a live handle of its own;
\* no call of LinkNew, Logout (CancelLink) or the wait requests takes a slot
\* out of the list or puts another handle into a slot, and no call changes
\* another user's entry; a LinkNew of a user that has an entry cancels the
\* context of that session, clears its slot and replaces the entry.
C36_RegistryKeepsOneSessionPerUser ==
    [][ LET h == dev.provisioningHandles
            users == dev.provisioningUsers
            u == snd'.user
        IN  /\ RegistryOk(dev) /\ RegistryOk(dev')
            /\ Len(dev'.provisioningHandles) >= Len(h)
            /\ \A i \in 1..Len(h) :
                  dev'.provisioningHandles[i] \in {h[i], EmptyHandle}
            /\ \A v \in ProvUsers \ {u} :
                  /\ v \in DOMAIN dev'.provisioningUsers <=> v \in DOMAIN users
                  /\ v \in DOMAIN users =>
                        /\ dev'.provisioningUsers[v] = users[v]
                        /\ dev'.provisioningHandles[users[v] + 1] = h[users[v] + 1]
            /\ (snd'.req \in {"new", "logout"} /\ u \in DOMAIN users) =>
                  /\ h[users[u] + 1].login \in dev'.cancelled
                  /\ dev'.provisioningHandles[users[u] + 1] = EmptyHandle
                  /\ IF snd'.req = "new" /\ snd'.result # "loginError"
                     THEN /\ u \in DOMAIN dev'.provisioningUsers
                          /\ dev'.provisioningUsers[u] = Len(h)
                     ELSE u \notin DOMAIN dev'.provisioningUsers ]_vars

\* C36 witness: a user with a pending session called LinkNew again while
\* another user holds session 1: slot 0 is cleared, its login cancelled, and
\* the user is registered with the new slot 2.
C36_Witness ==
    /\ snd.req = "new"
    /\ Len(dev.provisioningHandles) = 3
    /\ dev.provisioningHandles[1] = EmptyHandle
    /\ 1 \in dev.cancelled
    /\ DOMAIN dev.provisioningUsers = ProvUsers
    /\ dev.provisioningUsers[snd.user] = 2
    /\ \E v \in ProvUsers \ {snd.user} : dev.provisioningUsers[v] = 1

\* C37: a LinkWaitForScan or LinkWaitForAccount request that names a
\* session id other than the one registered for its user does not succeed,
\* reads no response from any provisioning channel and connects nobody.
C37_WaitReadsOnlyOwnSession ==
    [][ LET u == snd'.user
            users == dev.provisioningUsers
        IN  (/\ dev'.nRequests # dev.nRequests
             /\ snd'.req \in {"scan", "account"}
             /\ ~(u \in DOMAIN users /\ users[u] = snd'.sessionID)) =>
               /\ snd'.result # "ok"
               /\ snd'.resp = Timeout
               /\ dev'.reads = dev.reads
               /\ dev'.connected = dev.connected ]_vars

(* --------------- provisioning API: concurrent LinkNew ------------------ *)

\* The frame of a LinkNew request served by its own goroutine: where it is,
\* the login it started, and its local sessionID.
LinkFrame == [pc |-> "idle", login |-> 0, sessionID |-> -1]

\* LinkNew up to the handle it built: CancelLink for a user with an entry,
\* then user.Login().
LinkNewLogin(u) ==
    /\ snd[u].pc \in {"idle", "done"}
    /\ dev.nLogins < MaxLogins
    /\ \E loginOk \in BOOLEAN :
          IF loginOk
          THEN /\ dev' = [CancelLink(dev, u) EXCEPT !.nLogins = @ + 1]
               /\ snd' = [snd EXCEPT ![u] = [LinkFrame EXCEPT
                                               !.pc = "loggedIn",
                                               !.login = dev.nLogins + 1]]
          ELSE /\ dev' = CancelLink(dev, u)
               /\ snd' = [snd EXCEPT ![u] = [LinkFrame EXCEPT !.pc = "done"]]

\* prov.provisioningHandles = append(prov.provisioningHandles, handle)
LinkNewAppend(u) ==
    /\ snd[u].pc = "loggedIn"
    /\ dev' = [dev EXCEPT !.provisioningHandles =
                             Append(@, [login |-> snd[u].login, user |-> u])]
    /\ snd' = [snd EXCEPT ![u].pc = "appended"]

\* sessionID := len(prov.provisioningHandles) - 1
LinkNewIndex(u) ==
    /\ snd[u].pc = "appended"
    /\ snd' = [snd EXCEPT ![u].pc = "indexed",
                          ![u].sessionID = Len(dev.provisioningHandles) - 1]
    /\ UNCHANGED dev

\* prov.provisioningUsers[user] = sessionID, and the select on the channel
\* of the user's own login.
LinkNewRegister(u) ==
    /\ snd[u].pc = "indexed"
    /\ \E resp \in selectResponse([login |-> snd[u].login, user |-> u]) :
          dev' = [dev EXCEPT
                    !.provisioningUsers =
                        [x \in DOMAIN @ \cup {u} |->
                           IF x = u THEN snd[u].sessionID ELSE @[x]],
                    !.reads = @ \cup readOf([login |-> snd[u].login, user |-> u],
                                            resp, u)]
    /\ snd' = [snd EXCEPT ![u].pc = "done"]

LinkInit ==
    /\ dev = NewProvisioningAPI
    /\ snd = [u \in ProvUsers |-> LinkFrame]

LinkNext ==
    \E u \in ProvUsers :
        \/ LinkNewLogin(u)
        \/ LinkNewAppend(u)
        \/ LinkNewIndex(u)
        \/ LinkNewRegister(u)

LinkSpec == LinkInit /\ [][LinkNext]_vars

\* C38: once the LinkNew requests of the users have returned, every user
\* whose login succeeded is registered with the index of the slot that holds
\* the handle of its own login, and no two users with the same index.
C38_ConcurrentLinkNewRegistersOwnHandle ==
    (\A u \in ProvUsers : snd[u].pc \in {"idle", "done"}) =>
        LET h == dev.provisioningHandles
            users == dev.provisioningUsers
        IN  /\ \A u \in ProvUsers :
                  snd[u].login # 0 =>
                     /\ u \in DOMAIN users
                     /\ users[u] \in 0..(Len(h) - 1)
                     /\ h[users[u] + 1].login = snd[u].login
            /\ \A u, v \in DOMAIN users : users[u] = users[v] => u = v

(* --------------------------- login command ----------------------------- *)

\* The user of the login command.
CommandUser == "@cmd"

\* fnLogin that does not look at the third response.
fnLogin_ignoresPreKeysResponse(frame, loginOk, resp, aci) ==
    LET read == Append(frame.read, resp)
        failed == resp.Err \/ resp.State = "Error"
        ended == [frame EXCEPT !.pc = "ended", !.read = read]
    IN  CASE frame.pc \in {"idle", "ended", "connected"} ->
               [pc |-> IF loginOk THEN "waitURL" ELSE "ended",
                read |-> <<>>, signalID |-> ""]
          [] frame.pc = "waitURL" ->
               IF ~failed /\ resp.State = "URLReceived"
               THEN [frame EXCEPT !.pc = "waitData", !.read = read]
               ELSE ended
          [] frame.pc = "waitData" ->
               IF ~failed /\ resp.State = "DataReceived"
               THEN [pc |-> "waitPreKeys", read |-> read, signalID |-> aci]
               ELSE ended
          [] frame.pc = "waitPreKeys" ->
               IF frame.signalID = "uuid"
               THEN [frame EXCEPT !.pc = "connected", !.read = read]
               ELSE ended

\* fnLogin from one receive on the provisioning channel to the next: after
\* user.Login() it reads the URL, the provisioning data and the prekeys
\* state, ends at an error or another state, and calls user.Connect() when
\* the signal id kept from the provisioning data parses as a UUID.
fnLogin(frame, loginOk, resp, aci) ==
    LET read == Append(frame.read, resp)
        failed == resp.Err \/ resp.State = "Error"
        ended == [frame EXCEPT !.pc = "ended", !.read = read]
    IN  CASE frame.pc \in {"idle", "ended", "connected"} ->
               [pc |-> IF loginOk THEN "waitURL" ELSE "ended",
                read |-> <<>>, signalID |-> ""]
          [] frame.pc = "waitURL" ->
               IF ~failed /\ resp.State = "URLReceived"
               THEN [frame EXCEPT !.pc = "waitData", !.read = read]
               ELSE ended
          [] frame.pc = "waitData" ->
               IF ~failed /\ resp.State = "DataReceived"
               THEN [pc |-> "waitPreKeys", read |-> read, signalID |-> aci]
               ELSE ended
          [] frame.pc = "waitPreKeys" ->
               IF ~failed /\ resp.State = "PreKeysRegistered"
                     /\ frame.signalID = "uuid"
               THEN [frame EXCEPT !.pc = "connected", !.read = read]
               ELSE ended

\* The login command is given, or its goroutine receives the next response
\* of its provisioning channel.
fnLoginStep ==
    /\ dev.command.pc \in {"idle", "ended", "connected"} =>
          dev.nRequests < MaxRequests
    /\ \E loginOk \in BOOLEAN, resp \in ProvisioningResponses,
          aci \in {"", "notauuid", "uuid"} :
          \E f \in {fnLogin(dev.command, loginOk, resp, aci)} :
             /\ dev' = [dev EXCEPT
                          !.command = f,
                          !.connected = IF f.pc = "connected"
                                        THEN @ \cup {CommandUser} ELSE @,
                          !.nRequests = IF f.read = <<>> THEN @ + 1 ELSE @]
             /\ snd' = [NoProvRequest EXCEPT
                          !.req = "login", !.user = CommandUser,
                          !.result = f.pc]

LoginNext ==
    \/ fnLoginStep
    \/ LinkNew("@u1")
    \/ LinkWaitForAccount("@u1")

LoginSpec == ProvInit /\ [][LoginNext]_vars

\* C39: user.Connect() is called by the login command only in the step
\* that read the third response, and only when the three responses read
\* were URL-received, provisioning-data-received and prekeys-registered, in
\* this order and each without error, and the signal id of the provisioning
\* data is a UUID; a response with an error or another state ends the
\* command, which reads no more and does not connect. LinkWaitForAccount
\* connects its user only in a request that read the prekeys-registered
\* state without error.
C39_ConnectOnlyAfterThreeStates ==
    [][ LET c == dev.command
            d == dev'.command
            ok(state) == [State |-> state, Err |-> FALSE]
        IN  /\ (d # c /\ d.pc = "connected") =>
                  /\ c.pc = "waitPreKeys"
                  /\ d.read = <<ok("URLReceived"), ok("DataReceived"),
                                ok("PreKeysRegistered")>>
                  /\ d.signalID = "uuid"
            /\ (d # c /\ d.read # <<>>
                  /\ d.read[Len(d.read)] # ok(<<"URLReceived", "DataReceived",
                                                 "PreKeysRegistered">>[Len(d.read)])) =>
                  /\ d.pc = "ended"
                  /\ dev'.connected = dev.connected
            /\ (c.pc = "ended" /\ d # c) => (d.read = <<>> /\ d.pc # "connected")
            /\ \A u \in dev'.connected \ dev.connected :
                  IF u = CommandUser
                  THEN d # c /\ d.pc = "connected"
                  ELSE /\ snd'.req = "account"
                       /\ snd'.user = u
                       /\ snd'.resp = ok("PreKeysRegistered") ]_vars

\* C39 witness: the login command has connected its user after the three
\* states, and LinkWaitForAccount has connected the API's user.
C39_Witness ==
    /\ dev.command.pc = "connected"
    /\ Len(dev.command.read) = 3
    /\ dev.connected = {CommandUser, "@u1"}

====
